---- MODULE Spec2Model ----
(***************************************************************************)
(* A model of the katex-renderer servers: the raster post-processing       *)
(* pipeline (bounding box, crop, tiling) and the render cache.  The        *)
(* repository holds several near-identical server files; each definition   *)
(* below names the file whose code it follows.                             *)
(*                                                                         *)
(* Buffers are sequences of bytes.  JavaScript indexes from 0, TLA+ from   *)
(* 1: data[i + 1] here is data[i] of the source.                           *)
(***************************************************************************)
EXTENDS Integers, Sequences, FiniteSets, TLC

(***************************************************************************)
(* Bounds of the model.                                                    *)
(***************************************************************************)
MaxW == 3

MaxH == 3

MaxInk == 2

MaxTileHeight == 4

Min(a, b) == IF a < b THEN a ELSE b

Max(a, b) == IF a > b THEN a ELSE b

\* Math.min(...S) and Math.max(...S) of a non-empty set of integers.
Least(S) == CHOOSE a \in S : \A b \in S : a <= b

Greatest(S) == CHOOSE a \in S : \A b \in S : a >= b

(***************************************************************************)
(* Byte buffers.                                                           *)
(***************************************************************************)
Concat(a, b) == a \o b

\* A relative index of slice/subarray: negative counts from the end, and the
\* result is clamped to [0, len].
ClampIndex(k, len) == IF k < 0 THEN Max(len + k, 0) ELSE Min(k, len)

\* Mutant: an end past the buffer gives an empty slice instead of clamping.
BufferSliceStrict(buf, start, end) ==
  IF 0 <= start /\ start < end /\ end <= Len(buf)
  THEN SubSeq(buf, start + 1, end) ELSE << >>

\* buf.slice(start, end) and buf.subarray(start, end) of a Node Buffer:
\* bytes start..end-1 (0-based), both ends clamped to the buffer.
BufferSlice(buf, start, end) ==
  LET s == ClampIndex(start, Len(buf))
      e == ClampIndex(end, Len(buf))
  IN  IF s < e THEN SubSeq(buf, s + 1, e) ELSE << >>

(***************************************************************************)
(* base64: buf.toString("base64") and Buffer.from(str, "base64").  A       *)
(* base64 string is the sequence of its characters' values in the base64   *)
(* alphabet, 0..63, with Pad for "=".                                      *)
(***************************************************************************)
Pad == 64

Base64Encode(buf) ==
  LET n == Len(buf)
      byte(i) == IF i <= n THEN buf[i] ELSE 0
      sextet(k) ==
        LET g == 3 * ((k - 1) \div 4)
            j == (k - 1) % 4
        IN  CASE j = 0 -> byte(g + 1) \div 4
              [] j = 1 -> (byte(g + 1) % 4) * 16 + byte(g + 2) \div 16
              [] j = 2 -> IF g + 2 > n THEN Pad
                          ELSE (byte(g + 2) % 16) * 4 + byte(g + 3) \div 64
              [] j = 3 -> IF g + 3 > n THEN Pad ELSE byte(g + 3) % 64
  IN  [k \in 1..(4 * ((n + 2) \div 3)) |-> sextet(k)] \o << >>

\* Buffer.from(str, "base64") of a padded string: three bytes for every four
\* sextets, less one for every pad.
Base64Decode(str) ==
  LET m == Len(str)
      pads == Cardinality({k \in 1..m : str[k] = Pad})
      byte(i) ==
        LET g == 4 * ((i - 1) \div 3)
            j == (i - 1) % 3
        IN  CASE j = 0 -> str[g + 1] * 4 + str[g + 2] \div 16
              [] j = 1 -> (str[g + 2] % 16) * 16 + str[g + 3] \div 4
              [] j = 2 -> (str[g + 3] % 4) * 64 + str[g + 4]
  IN  [i \in 1..(3 * (m \div 4) - pads) |-> byte(i)] \o << >>

\* The bytes a client reassembles from a payload's tiles, in index order.
RECURSIVE DecodeTiles(_)
DecodeTiles(tiles) ==
  IF tiles = << >> THEN << >>
  ELSE Concat(Base64Decode(Head(tiles)), DecodeTiles(Tail(tiles)))

(***************************************************************************)
(* The tilers.  Each is the source's for-loop, y running from 0 in steps   *)
(* of tileHeight while y < height; the loop is entered with                *)
(* tileHeight >= 1 here (the handlers model the other values).             *)
(***************************************************************************)
RECURSIVE SplitLoop(_, _, _, _, _)
SplitLoop(rawBuffer, bytesPerRow, height, tileHeight, y) ==
  IF ~(y < height) THEN << >>
  ELSE
    LET rows == Min(tileHeight, height - y)
        start == y * bytesPerRow
        end == start + bytesPerRow * rows
    IN  << Base64Encode(BufferSlice(rawBuffer, start, end)) >>
          \o SplitLoop(rawBuffer, bytesPerRow, height, tileHeight, y + tileHeight)

\* Mutant: bytesPerRow = width, the channels forgotten.
splitBufferToTilesNoChannels(rawBuffer, width, height, channels, tileHeight) ==
  SplitLoop(rawBuffer, width, height, tileHeight, 0)

splitBufferToTiles(rawBuffer, width, height, channels, tileHeight) ==
  SplitLoop(rawBuffer, width * channels, height, tileHeight, 0)

makeTilesFromRawBuffer(rawBuffer, width, height, channels, tileHeight) ==
  SplitLoop(rawBuffer, width * channels, height, tileHeight, 0)

\* The inline loop of the MathJax servers: subarray, channels fixed to 4.
RECURSIVE SubarrayLoop(_, _, _, _, _, _)
SubarrayLoop(fullRaw, finalW, finalH, channels, tileHeight, y) ==
  IF ~(y < finalH) THEN << >>
  ELSE
    LET rows == Min(tileHeight, finalH - y)
        slice == BufferSlice(fullRaw, y * finalW * channels,
                             (y + rows) * finalW * channels)
    IN  << Base64Encode(slice) >>
          \o SubarrayLoop(fullRaw, finalW, finalH, channels, tileHeight,
                          y + tileHeight)

SubarrayTiles(fullRaw, finalW, finalH, tileHeight) ==
  SubarrayLoop(fullRaw, finalW, finalH, 4, tileHeight, 0)

\* The loop of the debug build: the slice end is (y + tileHeight) rows, with
\* no min; slice clamps it to the buffer.
RECURSIVE DebugLoop(_, _, _, _, _)
DebugLoop(raw, fullWidth, fullHeight, tileHeight, y) ==
  IF ~(y < fullHeight) THEN << >>
  ELSE
    LET start == y * fullWidth * 4
        end == (y + tileHeight) * fullWidth * 4
    IN  << Base64Encode(BufferSlice(raw, start, end)) >>
          \o DebugLoop(raw, fullWidth, fullHeight, tileHeight, y + tileHeight)

DebugTiles(raw, fullWidth, fullHeight, tileHeight) ==
  DebugLoop(raw, fullWidth, fullHeight, tileHeight, 0)

(***************************************************************************)
(* Raster images: { data, width, height, channels } as sharp's raw()       *)
(* returns them, data holding width*height*channels bytes, row-major.      *)
(* Concatenating the empty sequence leaves the bytes as they are: it makes *)
(* TLC hold them as a tuple, which it indexes in constant time.            *)
(***************************************************************************)
Image(data, width, height, channels) ==
  [data |-> data \o << >>, width |-> width, height |-> height,
   channels |-> channels]

\* What a failed call throws.
Err(msg) == [error |-> msg]

IsError(x) == "error" \in DOMAIN x

\* extract() checks its options when it is called and throws, before
\* anything is awaited, when one of them is below 0.
ExtractRejects(left, top, width, height) ==
  left < 0 \/ top < 0 \/ width < 0 \/ height < 0

\* The error extract() throws, which names the first option it refuses.
ExtractRejection(left, top, width, height) ==
  LET name == IF left < 0 THEN "left" ELSE IF top < 0 THEN "top"
              ELSE IF width < 0 THEN "width" ELSE "height"
      value == IF left < 0 THEN left ELSE IF top < 0 THEN top
               ELSE IF width < 0 THEN width ELSE height
  IN  Err("Expected integer for " \o name \o " but received " \o ToString(value)
            \o " of type number")

\* sharp(...).extract({left, top, width, height}): the rectangle's pixels, or
\* an error when the options are refused or the rectangle has no area or
\* does not lie inside the image.
SharpExtract(image, left, top, width, height) ==
  IF ExtractRejects(left, top, width, height)
  THEN ExtractRejection(left, top, width, height)
  ELSE IF width = 0 \/ height = 0
     \/ left + width > image.width \/ top + height > image.height
  THEN Err("extract_area: bad extract area")
  ELSE
    LET c == image.channels
        n == width * height * c
        src(i) == ((top + (i \div (width * c))) * image.width + left) * c
                    + (i % (width * c))
    IN  Image([i \in 1..n |-> image.data[src(i - 1) + 1]], width, height, c)

\* One pass of the loop that cuts each tile with sharp's extract: rows
\* y..y+h-1 at full width, as raw bytes, h = Math.min(tileHeight, height - y).
ExtractTile(image, width, height, tileHeight, y) ==
  SharpExtract(image, 0, y, width, Min(tileHeight, height - y))

\* The loop from y to its end, when every extract it awaits is settled.  An
\* extract that fails rejects the whole loop.
RECURSIVE ExtractLoop(_, _, _, _, _)
ExtractLoop(image, width, height, tileHeight, y) ==
  IF ~(y < height) THEN [tiles |-> << >>]
  ELSE
    LET tile == ExtractTile(image, width, height, tileHeight, y)
        rest == ExtractLoop(image, width, height, tileHeight, y + tileHeight)
    IN  IF IsError(tile) THEN tile
        ELSE IF IsError(rest) THEN rest
        ELSE [tiles |-> << Base64Encode(tile.data) >> \o rest.tiles]

ExtractTiles(image, width, height, tileHeight) ==
  ExtractLoop(image, width, height, tileHeight, 0)

(***************************************************************************)
(* findBBox: the row-major scan with the running extremes.                 *)
(***************************************************************************)
DefaultAlphaThreshold == 1

NoBox == [none |-> TRUE]

\* Mutant: the comparison inverted, alpha < alphaThreshold.
Below(data, i, alphaThreshold) ==
  i < Len(data) /\ data[i + 1] < alphaThreshold

\* Mutant: alpha >= alphaThreshold.
ExceedsOrEqual(data, i, alphaThreshold) ==
  i < Len(data) /\ data[i + 1] >= alphaThreshold

\* alpha > alphaThreshold for alpha = data[i]; an index past the end of the
\* buffer reads undefined, and undefined > n is false.
Exceeds(data, i, alphaThreshold) ==
  i < Len(data) /\ data[i + 1] > alphaThreshold

Widen(acc, x, y) ==
  [minX |-> IF x < acc.minX THEN x ELSE acc.minX,
   maxX |-> IF x > acc.maxX THEN x ELSE acc.maxX,
   minY |-> IF y < acc.minY THEN y ELSE acc.minY,
   maxY |-> IF y > acc.maxY THEN y ELSE acc.maxY]

\* The inner loop over x of one row y: acc is widened by every column whose
\* pixel exceeds the threshold, which leaves what widening by the first and
\* the last of them leaves.
ScanRow(data, width, channels, alphaThreshold, y, acc) ==
  LET row == y * width * channels
      hits == {x \in 0..(width - 1) :
                 Exceeds(data, row + x * channels + 3, alphaThreshold)}
  IN  IF hits = {} THEN acc
      ELSE Widen(Widen(acc, Least(hits), y), Greatest(hits), y)

RECURSIVE ScanRows(_, _, _, _, _, _, _)
ScanRows(data, width, height, channels, alphaThreshold, y, acc) ==
  IF ~(y < height) THEN acc
  ELSE ScanRows(data, width, height, channels, alphaThreshold, y + 1,
                ScanRow(data, width, channels, alphaThreshold, y, acc))

\* Mutant: the box's width and height lack the + 1.
findBBoxExclusive(data, width, height, channels, alphaThreshold) ==
  LET acc == ScanRows(data, width, height, channels, alphaThreshold, 0,
                      [minX |-> width, minY |-> height, maxX |-> -1, maxY |-> -1])
  IN  IF acc.maxX < acc.minX \/ acc.maxY < acc.minY THEN NoBox
      ELSE [left |-> acc.minX, top |-> acc.minY,
            width |-> acc.maxX - acc.minX,
            height |-> acc.maxY - acc.minY]

findBBoxFromOrigin(data, width, height, channels, alphaThreshold) ==
  LET acc == ScanRows(data, width, height, channels, alphaThreshold, 0,
                      [minX |-> width, minY |-> height, maxX |-> -1, maxY |-> -1])
  IN  IF acc.maxX < acc.minX \/ acc.maxY < acc.minY THEN NoBox
      ELSE [left |-> acc.minX, top |-> acc.minY,
            width |-> acc.maxX + 1, height |-> acc.maxY + 1]

findBBox(data, width, height, channels, alphaThreshold) ==
  LET acc == ScanRows(data, width, height, channels, alphaThreshold, 0,
                      [minX |-> width, minY |-> height, maxX |-> -1, maxY |-> -1])
  IN  IF acc.maxX < acc.minX \/ acc.maxY < acc.minY THEN NoBox
      ELSE [left |-> acc.minX, top |-> acc.minY,
            width |-> acc.maxX - acc.minX + 1,
            height |-> acc.maxY - acc.minY + 1]

\* Mutant: the default threshold is 0.
findBBoxDefaultZero(data, width, height, channels) ==
  findBBox(data, width, height, channels, 0)

\* A call that passes no fifth argument: alphaThreshold = 1.
findBBoxDefault(data, width, height, channels) ==
  findBBox(data, width, height, channels, DefaultAlphaThreshold)

(***************************************************************************)
(* Inputs.  A generated image is transparent black except for at most      *)
(* MaxInk painted pixels; an RGBA pixel is painted white with the alpha    *)
(* chosen, an RGB pixel with the grey level chosen.                        *)
(***************************************************************************)
Widths == 1..MaxW

Heights == 1..MaxH

AlphaVals == {1, 2}

Painted(width, height, channels, ink) ==
  Image([i \in 1..(width * height * channels) |->
           LET p == (i - 1) \div channels
               c == (i - 1) % channels
           IN  IF p \in DOMAIN ink
               THEN (IF c = 3 \/ channels < 4 THEN ink[p] ELSE 255)
               ELSE 0],
        width, height, channels)

Inks(n) ==
  UNION {[S -> AlphaVals] : S \in {T \in SUBSET (0..(n - 1)) : Cardinality(T) <= MaxInk}}

ImagesOf(channels) ==
  UNION {{Painted(w, h, channels, ink) : ink \in Inks(w * h)} :
           w \in Widths, h \in Heights}

\* The 4x4 scenario: only (1,1) and (2,2) opaque white.
Example4x4 == Painted(4, 4, 4, (5 :> 255) @@ (10 :> 255))

RgbaImages == ImagesOf(4) \cup {Example4x4}

RgbImages == ImagesOf(3)

\* Buffers whose bytes all differ: byte i is seed + i*step mod 256.
Ramp(width, height, channels, seed, step) ==
  Image([i \in 1..(width * height * channels) |-> (seed + (i - 1) * step) % 256],
        width, height, channels)

MaxRows == 5

RampImages ==
  {Ramp(w, h, c, s[1], s[2]) :
     w \in Widths, h \in 1..MaxRows, c \in {3, 4}, s \in {<<0, 1>>, <<255, 251>>}}

TileHeights == 1..MaxTileHeight

Thresholds == {0, 2}

(***************************************************************************)
(* State.  img, tiling and boxes are the function-level runs of the tilers *)
(* and of findBBox; variant, world, cache and conn are a running server.   *)
(***************************************************************************)
VARIABLES img, tiling, boxes, keying, stack, variant, world, cache, conn, req, calls, stages

unitVars == <<img, tiling, boxes, keying, stack>>

serverVars == <<variant, world, cache, conn, req, calls, stages>>

vars == <<img, tiling, boxes, keying, stack, variant, world, cache, conn, req, calls, stages>>

NoImage == Image(<< >>, 0, 0, 4)

NoTiling ==
  [tiler |-> "none", tileHeight |-> 1, done |-> FALSE, tiles |-> << >>, y |-> 0]

NoKeying == [fn |-> "none"]

NoStack == [pc |-> "none"]

NoServer ==
  /\ variant = "none"
  /\ world = << >>
  /\ cache = << >>
  /\ conn = << >>
  /\ req = << >>
  /\ calls = << >>
  /\ stages = << >>

(***************************************************************************)
(* SpecTiler: one call of a tiler on a raw buffer.                         *)
(***************************************************************************)
Tilers ==
  {"splitBufferToTiles", "makeTilesFromRawBuffer", "SubarrayTiles",
   "DebugTiles", "ExtractTiles"}

\* The inline loops read 4 bytes per pixel from an RGBA raster.
TilerAccepts(tiler, image) ==
  tiler \in {"SubarrayTiles", "DebugTiles"} => image.channels = 4

InitTiler ==
  /\ img \in RampImages
  /\ tiling \in {[tiler |-> t, tileHeight |-> th, done |-> FALSE, tiles |-> << >>,
                    y |-> 0] :
                   t \in Tilers, th \in TileHeights}
  /\ TilerAccepts(tiling.tiler, img)
  /\ boxes = {}
  /\ keying = NoKeying
  /\ stack = NoStack
  /\ NoServer

SetTiles(tiles) ==
  /\ tiling' = [tiling EXCEPT !.done = TRUE, !.tiles = tiles]
  /\ UNCHANGED <<img, boxes, keying, stack, serverVars>>

RunSplitBufferToTiles ==
  /\ tiling.tiler = "splitBufferToTiles" /\ ~tiling.done
  /\ SetTiles(splitBufferToTiles(img.data, img.width, img.height, img.channels,
                              tiling.tileHeight))

RunMakeTilesFromRawBuffer ==
  /\ tiling.tiler = "makeTilesFromRawBuffer" /\ ~tiling.done
  /\ SetTiles(makeTilesFromRawBuffer(img.data, img.width, img.height, img.channels,
                                  tiling.tileHeight))

RunSubarrayTiles ==
  /\ tiling.tiler = "SubarrayTiles" /\ ~tiling.done
  /\ SetTiles(SubarrayTiles(img.data, img.width, img.height, tiling.tileHeight))

RunDebugTiles ==
  /\ tiling.tiler = "DebugTiles" /\ ~tiling.done
  /\ SetTiles(DebugTiles(img.data, img.width, img.height, tiling.tileHeight))

\* The loop over extract runs one pass at a time: each pass awaits its
\* extract.  A step is the continuation of one await: the tile is pushed,
\* y grows by tileHeight, and the loop ends or awaits the next extract.
RunExtractTiles ==
  /\ tiling.tiler = "ExtractTiles" /\ ~tiling.done
  /\ IF ~(tiling.y < img.height)
     THEN tiling' = [tiling EXCEPT !.done = TRUE]
     ELSE LET tile == ExtractTile(img, img.width, img.height, tiling.tileHeight,
                                  tiling.y)
          IN  /\ ~IsError(tile)
              /\ tiling' = [tiling EXCEPT
                              !.tiles = Append(@, Base64Encode(tile.data)),
                              !.y = @ + tiling.tileHeight,
                              !.done = ~(tiling.y + tiling.tileHeight < img.height)]
  /\ UNCHANGED <<img, boxes, keying, stack, serverVars>>

NextTiler ==
  \/ RunSplitBufferToTiles
  \/ RunMakeTilesFromRawBuffer
  \/ RunSubarrayTiles
  \/ RunDebugTiles
  \/ RunExtractTiles

SpecTiler == InitTiler /\ [][NextTiler]_vars

(***************************************************************************)
(* SpecBBox: calls of findBBox on one raster, with and without the fifth   *)
(* argument.  boxes holds the calls made and what each returned.           *)
(***************************************************************************)
InitBBox ==
  /\ img \in RgbaImages \cup RgbImages
  /\ tiling = NoTiling
  /\ boxes = {}
  /\ keying = NoKeying
  /\ stack = NoStack
  /\ NoServer

BBoxCall(explicit, threshold, box) ==
  [explicit |-> explicit, threshold |-> threshold, box |-> box]

CallFindBBox(t) ==
  /\ \A c \in boxes : ~(c.explicit /\ c.threshold = t)
  /\ boxes' = boxes \cup
       {BBoxCall(TRUE, t, findBBox(img.data, img.width, img.height, img.channels, t))}
  /\ UNCHANGED <<img, tiling, keying, stack, serverVars>>

CallFindBBoxDefault ==
  /\ \A c \in boxes : c.explicit
  /\ boxes' = boxes \cup
       {BBoxCall(FALSE, DefaultAlphaThreshold,
                 findBBoxDefault(img.data, img.width, img.height, img.channels))}
  /\ UNCHANGED <<img, tiling, keying, stack, serverVars>>

NextBBox ==
  \/ \E t \in Thresholds : CallFindBBox(t)
  \/ CallFindBBoxDefault

SpecBBox == InitBBox /\ [][NextBBox]_vars

(***************************************************************************)
(* hashKey on the values a JSON body can carry.  A value is a number       *)
(* [num |-> n], a string [str |-> s], null or undefined.                   *)
(***************************************************************************)
Num(n) == [num |-> n]

Text(str) == [str |-> str]

Null == [null |-> TRUE]

Undefined == [undefined |-> TRUE]

\* String(value), as a template literal applies it.
JsString(value) ==
  IF "num" \in DOMAIN value THEN ToString(value.num)
  ELSE IF "str" \in DOMAIN value THEN value.str
  ELSE IF value = Null THEN "null"
  ELSE "undefined"

\* An element in Array.prototype.join: null and undefined give "".
JoinElement(value) ==
  IF value = Null \/ value = Undefined THEN "" ELSE JsString(value)

RECURSIVE ArrayJoin(_, _)
ArrayJoin(parts, sep) ==
  IF parts = << >> THEN ""
  ELSE IF Len(parts) = 1 THEN JoinElement(parts[1])
  ELSE JoinElement(parts[1]) \o sep \o ArrayJoin(Tail(parts), sep)

\* server.js, part_003, part_010: hashKey(...parts), the string that is
\* digested.
hashKeyParts(parts) == ArrayJoin(parts, ":")

\* part_002: hashKey(latex, scale, fontSize, targetWidth, targetHeight),
\* the template literal that is digested.
hashKeyTemplate(parts) ==
  JsString(parts[1]) \o ":" \o JsString(parts[2]) \o ":" \o JsString(parts[3])
    \o ":" \o JsString(parts[4]) \o ":" \o JsString(parts[5])

\* (latex, fontSize, scale, margin, tileHeight, targetWidth, targetHeight)
\* as server.js passes them.
PartsTuples ==
  {<<latex, fontSize, Num(4), Num(2), Num(128), targetWidth, Undefined>> :
     latex \in {Text("a"), Text("a:1")},
     fontSize \in {Num(1), Num(2), Text("1:2")},
     targetWidth \in {Undefined, Null, Text(""), Num(2)}}

\* (latex, scale, fontSize, targetWidth, targetHeight) as part_002 passes
\* them: a default has replaced every undefined.
TemplateTuples ==
  {<<latex, scale, Num(48), targetWidth, Num(600)>> :
     latex \in {Text("a"), Text("a:1")},
     scale \in {Num(1), Num(2), Text("1:2")},
     targetWidth \in {Num(800), Null, Text("null")}}

(***************************************************************************)
(* SpecKey: hashKey called on two tuples of parts.                         *)
(***************************************************************************)
InitKey ==
  /\ keying \in
       {[fn |-> "parts", a |-> a, b |-> b, done |-> FALSE, ka |-> "", kb |-> ""] :
          a \in PartsTuples, b \in PartsTuples}
       \cup
       {[fn |-> "template", a |-> a, b |-> b, done |-> FALSE, ka |-> "", kb |-> ""] :
          a \in TemplateTuples, b \in TemplateTuples}
  /\ img = NoImage
  /\ tiling = NoTiling
  /\ boxes = {}
  /\ stack = NoStack
  /\ NoServer

CallHashKeyParts ==
  /\ keying.fn = "parts" /\ ~keying.done
  /\ keying' = [keying EXCEPT !.done = TRUE,
                              !.ka = hashKeyParts(keying.a),
                              !.kb = hashKeyParts(keying.b)]
  /\ UNCHANGED <<img, tiling, boxes, stack, serverVars>>

CallHashKeyTemplate ==
  /\ keying.fn = "template" /\ ~keying.done
  /\ keying' = [keying EXCEPT !.done = TRUE,
                              !.ka = hashKeyTemplate(keying.a),
                              !.kb = hashKeyTemplate(keying.b)]
  /\ UNCHANGED <<img, tiling, boxes, stack, serverVars>>

NextKey ==
  \/ CallHashKeyParts
  \/ CallHashKeyTemplate

SpecKey == InitKey /\ [][NextKey]_vars

(***************************************************************************)
(* The stacked renderers (part_007, part_008): the fragments of the        *)
(* formulas, one under the other in one SVG.                               *)
(***************************************************************************)
MAX_SIZE == 1024

EX_TO_PX == 8

\* const gap = 10
Gap == 10

\* The width and height attributes of a fragment's SVG, in tenths of an ex;
\* NoMatch when the attributes are not of the form the regex looks for.
NoMatch == [nomatch |-> TRUE]

\* Math.ceil(parseFloat(m) * EX_TO_PX) for m given in tenths.
CeilPx(tenths) == (tenths * EX_TO_PX + 9) \div 10

getSVGPixelDims(measure) ==
  IF measure = NoMatch THEN [width |-> 256, height |-> 128]
  ELSE [width |-> Max(1, CeilPx(measure.w)), height |-> Max(1, CeilPx(measure.h))]

\* The svg that replaces the typesetter's markup when that markup, trimmed,
\* does not begin with "<svg": width="40ex" height="3ex", in tenths of an ex.
FallbackSvg == [w |-> 400, h |-> 30]

\* renderFormulaToSVG: the fragment with its measured size.  The markup is
\* what adaptor.outerHTML(node) returned: whether it begins with "<svg"
\* once trimmed, and the first width and height attributes in it.
renderFormulaToSVG(markup) ==
  LET svg == IF ~markup.startsWithSvg THEN FallbackSvg ELSE markup.measure
  IN  [width |-> getSVGPixelDims(svg).width,
       height |-> getSVGPixelDims(svg).height]

\* The loop of composeStackedSVG: each fragment is translated by y, which
\* then grows by the fragment's height and the gap.
RECURSIVE StackLoop(_, _, _, _)
StackLoop(frags, y, maxW, rows) ==
  IF frags = << >> THEN [rows |-> rows, y |-> y, maxW |-> maxW]
  ELSE StackLoop(Tail(frags), y + Head(frags).height + Gap,
                 Max(maxW, Head(frags).width),
                 Append(rows, [y |-> y, width |-> Head(frags).width,
                                height |-> Head(frags).height]))

composeStackedSVG(frags) ==
  LET end == StackLoop(frags, 0, 1, << >>)
  IN  [rows |-> end.rows,
       width |-> Min(end.maxW, MAX_SIZE),
       height |-> Min(end.y - Gap, MAX_SIZE)]

\* MAX_SIZE / side as a fraction with a positive denominator; MAX_SIZE / 0
\* is Infinity, which Math.min never selects next to 1.
Quotients(side) ==
  IF side > 0 THEN {[n |-> MAX_SIZE, d |-> side]}
  ELSE IF side < 0 THEN {[n |-> 0 - MAX_SIZE, d |-> 0 - side]}
  ELSE {}

\* scale = Math.min(MAX_SIZE / width, MAX_SIZE / height, 1)
ScaleOf(width, height) ==
  LET qs == Quotients(width) \cup Quotients(height) \cup {[n |-> 1, d |-> 1]}
  IN  CHOOSE s \in qs : \A t \in qs : s.n * t.d <= t.n * s.d

IsPowerOfTwo(d) == \E k \in 0..30 : d = 2^k

\* Math.floor(side * scale) in double precision.  The quotient is exact when
\* its denominator is a power of two, and the product then is as well.
\* Otherwise the quotient is rounded: a product that is not a whole number
\* is far enough from one for its floor to be exact, while a product that
\* is a whole number p may come out just below p, so that the floor is p
\* or p - 1.
FloorTimes(side, s) ==
  LET p == side * s.n
  IN  IF IsPowerOfTwo(s.d) \/ p % s.d # 0
      THEN {p \div s.d}
      ELSE {p \div s.d - 1, p \div s.d}

\* targetW = Math.max(1, Math.floor(width * scale)) and targetH likewise:
\* the targets the arithmetic can produce.
ClampToMaxSize(width, height) ==
  {[targetW |-> Max(1, a), targetH |-> Max(1, b)] :
     a \in FloorTimes(width, ScaleOf(width, height)),
     b \in FloorTimes(height, ScaleOf(width, height))}

\* The first width and height attributes of a markup: no height, a line, a
\* tall block, a wide line, and attributes that do not match.
Measures ==
  {[w |-> w, h |-> h] : w \in {1, 2000}, h \in {0, 160, 750}} \cup {NoMatch}

\* What adaptor.outerHTML returns for a formula: the svg element itself, or
\* something else (an empty string, a container around the svg).
Markups ==
  {[startsWithSvg |-> TRUE, measure |-> m] : m \in Measures}
    \cup {[startsWithSvg |-> FALSE, measure |-> m] : m \in {NoMatch, [w |-> 1, h |-> 160]}}

MaxFormulas == 3

\* The longest list of formulas whose markup is all replaced.
MaxReplaced == 31

FormulaLists ==
  UNION {[1..n -> Markups] : n \in 1..MaxFormulas}
    \cup {[i \in 1..n |-> [startsWithSvg |-> FALSE, measure |-> NoMatch]] :
             n \in 1..MaxReplaced}

(***************************************************************************)
(* SpecStack: POST /render with a non-empty list of formulas.              *)
(***************************************************************************)
InitStack ==
  /\ stack \in {[pc |-> "received", formulas |-> fs] : fs \in FormulaLists}
  /\ img = NoImage
  /\ tiling = NoTiling
  /\ boxes = {}
  /\ keying = NoKeying
  /\ NoServer

\* const frags = formulas.map(renderFormulaToSVG); composeStackedSVG(frags)
ComposeStacked ==
  /\ stack.pc = "received"
  /\ LET frags == [i \in DOMAIN stack.formulas |-> renderFormulaToSVG(stack.formulas[i])]
     IN  stack' = [pc |-> "composed", formulas |-> stack.formulas, frags |-> frags,
                   canvas |-> composeStackedSVG(frags)]
  /\ UNCHANGED <<img, tiling, boxes, keying, serverVars>>

\* The clamp to MAX_SIZE before svgToRGBA is called.
ClampTarget ==
  /\ stack.pc = "composed"
  /\ \E target \in ClampToMaxSize(stack.canvas.width, stack.canvas.height) :
       stack' = [pc |-> "clamped", formulas |-> stack.formulas, frags |-> stack.frags,
                 canvas |-> stack.canvas, target |-> target]
  /\ UNCHANGED <<img, tiling, boxes, keying, serverVars>>

NextStack ==
  \/ ComposeStacked
  \/ ClampTarget

SpecStack == InitStack /\ [][NextStack]_vars

(***************************************************************************)
(* The servers with a render cache: server.js (lines 1-139), part_002,     *)
(* part_003 and part_010.  A request body is the function from the names   *)
(* of the fields it carries to their values.                               *)
(***************************************************************************)
Variants == {"server", "part_002", "part_003", "part_010"}

Restrict(f, S) == [x \in (DOMAIN f) \cap S |-> f[x]]

\* The fields each handler destructures from req.body, and their defaults.
FieldsRead(v) ==
  CASE v = "server" ->
         {"latex", "fontSize", "scale", "margin", "tileHeight", "scaleTo",
          "targetWidth", "targetHeight"}
    [] v = "part_002" ->
         {"latex", "tileHeight", "fontSize", "scale", "targetWidth", "targetHeight"}
    [] v = "part_003" -> {"latex", "scale", "margin", "tileHeight"}
    [] v = "part_010" -> {"latex", "scale", "margin", "tileHeight", "display"}

Defaults(v) ==
  CASE v = "server" ->
         [fontSize |-> 32, scale |-> 4, margin |-> 2, tileHeight |-> 128,
          scaleTo |-> FALSE]
    [] v = "part_002" ->
         [tileHeight |-> 128, fontSize |-> 48, scale |-> 3,
          targetWidth |-> 800, targetHeight |-> 600]
    [] v = "part_003" -> [scale |-> 6, margin |-> 2, tileHeight |-> 128]
    [] v = "part_010" ->
         [scale |-> 6, margin |-> 2, tileHeight |-> 128, display |-> FALSE]

\* Mutant: an absent tileHeight is filled in as 1.
DestructureTileHeightOne(v, body) ==
  Restrict(body, FieldsRead(v)) @@ [tileHeight |-> 1] @@ Defaults(v)

\* const { latex, scale = ..., ... } = req.body
Destructure(v, body) == Restrict(body, FieldsRead(v)) @@ Defaults(v)

\* The white space and line terminators String.prototype.trim removes:
\* space, TAB, LF, CR, FF, then VT (U+000B), NBSP (U+00A0), the byte order
\* mark (U+FEFF) and the ogham space mark (U+1680), written as the
\* characters themselves.  The others it removes (U+2000 to U+200A, U+2028,
\* U+2029, U+202F, U+205F, U+3000) are no characters of a TLA+ string.
WhiteSpace ==
  {" ", "\t", "\n", "\r", "\f", "", " ", "﻿", " "}

RECURSIVE TrimStart(_)
TrimStart(str) ==
  IF Len(str) > 0 /\ SubSeq(str, 1, 1) \in WhiteSpace
  THEN TrimStart(SubSeq(str, 2, Len(str)))
  ELSE str

RECURSIVE TrimEnd(_)
TrimEnd(str) ==
  IF Len(str) > 0 /\ SubSeq(str, Len(str), Len(str)) \in WhiteSpace
  THEN TrimEnd(SubSeq(str, 1, Len(str) - 1))
  ELSE str

\* latex.trim(): the string without its leading and trailing white space.
StringTrim(str) == TrimEnd(TrimStart(str))

\* The validation at the top of each handler: TRUE when the request is
\* answered 400.
RejectsLatex(v, p) ==
  \/ "latex" \notin DOMAIN p
  \/ p.latex = ""
  \/ v = "part_003" /\ StringTrim(p.latex) = ""

RejectMessage(v) ==
  CASE v = "server" -> "Missing latex"
    [] v = "part_002" -> "Missing 'latex' field"
    [] v = "part_003" -> "Missing or invalid LaTeX"
    [] v = "part_010" -> "Missing or invalid 'latex' input"

(***************************************************************************)
(* The request bodies of the specifications.                               *)
(***************************************************************************)
\* SpecCrop: the requests differ in margin, tileHeight and the resize they
\* ask for.
CropBase == [latex |-> "x", scale |-> 1, targetWidth |-> 2, targetHeight |-> 3]

CropBodies ==
  {CropBase,
   CropBase @@ [margin |-> 0, tileHeight |-> 1],
   CropBase @@ [margin |-> 1, tileHeight |-> 1],
   CropBase @@ [margin |-> 1, tileHeight |-> 2],
   CropBase @@ [margin |-> 0, tileHeight |-> 2, scaleTo |-> TRUE]}

XBase == [latex |-> "x", scale |-> 1, targetWidth |-> 2, targetHeight |-> 3]

\* Spec: requests without markup, with markup that is white space only (a
\* space, a vertical tab), with markup the typesetter rejects, and requests
\* for "x" that differ in one field.
Bodies ==
  {[scale |-> 1],
   [latex |-> "", scale |-> 1],
   [latex |-> " ", scale |-> 1, targetWidth |-> 2, targetHeight |-> 3],
   [latex |-> "", scale |-> 1, targetWidth |-> 2, targetHeight |-> 3],
   [latex |-> "\\bad", scale |-> 1],
   XBase,
   XBase @@ [tileHeight |-> 1],
   XBase @@ [tileHeight |-> 128],
   XBase @@ [tileHeight |-> 0],
   XBase @@ [scaleTo |-> TRUE],
   XBase @@ [fontSize |-> 0],
   [latex |-> "x", scale |-> 0]}

\* SpecPass: requests that leave out one target or both.
PassBodies ==
  {[latex |-> "x", scale |-> 1],
   [latex |-> "x", scale |-> 1, scaleTo |-> TRUE],
   [latex |-> "x", scale |-> 1, targetWidth |-> 2],
   [latex |-> "x", scale |-> 1, targetHeight |-> 3, tileHeight |-> 2],
   [latex |-> "x", scale |-> 1, scaleTo |-> TRUE, targetWidth |-> 2]}

\* LiveSpec: few requests, for the check of liveness.
LiveBodies ==
  {[scale |-> 1],
   [latex |-> "\\bad", scale |-> 1],
   XBase,
   XBase @@ [tileHeight |-> 1],
   XBase @@ [tileHeight |-> 0]}

(***************************************************************************)
(* hashKey: the parts joined with ":" and digested.                        *)
(***************************************************************************)
\* String(value) as join and template literals apply it.
Str(field, value) ==
  IF field = "latex" THEN value
  ELSE IF field \in {"scaleTo", "display"} THEN (IF value THEN "true" ELSE "false")
  ELSE ToString(value)

\* An element of parts.join(":"): undefined joins as the empty string.
JoinPart(p, field) == IF field \in DOMAIN p THEN Str(field, p[field]) ELSE ""

RECURSIVE JoinColon(_, _)
JoinColon(p, fields) ==
  IF fields = << >> THEN ""
  ELSE IF Len(fields) = 1 THEN JoinPart(p, fields[1])
  ELSE JoinPart(p, fields[1]) \o ":" \o JoinColon(p, Tail(fields))

KeyFields(v) ==
  CASE v = "server" ->
         <<"latex", "fontSize", "scale", "margin", "tileHeight",
           "targetWidth", "targetHeight">>
    [] v = "part_002" ->
         <<"latex", "scale", "fontSize", "targetWidth", "targetHeight">>
    [] v = "part_003" -> <<"latex", "scale", "margin", "tileHeight">>
    [] v = "part_010" -> <<"latex", "scale", "margin", "tileHeight", "display">>

(***************************************************************************)
(* crypto.createHash("md5").update(str).digest("hex"): MD5 (RFC 1321) of   *)
(* the UTF-8 bytes of the string, as 32 hexadecimal digits.  A 32-bit word *)
(* is the pair <<high half, low half>> of its 16-bit halves, so that no    *)
(* sum or shift leaves the integers of the checker.                        *)
(***************************************************************************)
\* The characters U+0020 to U+005F, in the order of their codes.
AsciiLow ==
  " !\"#$%&'()*+,-./0123456789:;<=>?@ABCDEFGHIJKLMNOPQRSTUVWXYZ[\\]^_"

\* The characters U+0061 to U+007E, in the order of their codes (U+0060 is
\* no character of a TLA+ string).
AsciiHigh ==
  "abcdefghijklmnopqrstuvwxyz{|}~"

\* The characters U+00A0 to U+00FF, in the order of their codes.
Latin1 ==
  " ¡¢£¤¥¦§¨©ª«¬­®¯°±²³´µ¶·¸¹º»¼½¾¿ÀÁÂÃÄÅÆÇÈÉÊËÌÍÎÏÐÑÒÓÔÕÖ×ØÙÚÛÜÝÞßàáâãäåæçèéêëìíîïðñòóôõö÷øùúûüýþÿ"

IndexIn(chars, c) == CHOOSE i \in 1..Len(chars) : SubSeq(chars, i, i) = c

\* The UTF-8 bytes of a character: the control characters U+0009 to U+000D,
\* U+0020 to U+007E without U+0060, U+00A0 to U+00FF, U+1680 and U+FEFF.
Utf8Char(c) ==
  IF c = "\t" THEN <<9>>
  ELSE IF c = "\n" THEN <<10>>
  ELSE IF c = "" THEN <<11>>
  ELSE IF c = "\f" THEN <<12>>
  ELSE IF c = "\r" THEN <<13>>
  ELSE IF c = " " THEN <<225, 154, 128>>
  ELSE IF c = "﻿" THEN <<239, 187, 191>>
  ELSE IF \E i \in 1..Len(Latin1) : SubSeq(Latin1, i, i) = c
  THEN <<192 + ((159 + IndexIn(Latin1, c)) \div 64),
         128 + ((159 + IndexIn(Latin1, c)) % 64)>>
  ELSE IF \E i \in 1..Len(AsciiHigh) : SubSeq(AsciiHigh, i, i) = c
  THEN <<96 + IndexIn(AsciiHigh, c)>>
  ELSE <<31 + IndexIn(AsciiLow, c)>>

RECURSIVE Utf8(_)
Utf8(str) ==
  IF Len(str) = 0 THEN << >>
  ELSE Utf8Char(SubSeq(str, 1, 1)) \o Utf8(SubSeq(str, 2, Len(str)))

\* The message with its padding: a 1 bit, zeros up to 56 modulo 64 bytes,
\* then the length in bits as 64 bits, low byte first.
Md5Pad(bytes) ==
  LET n == Len(bytes)
      zeros == (119 - (n % 64)) % 64
      bits == 8 * n
  IN bytes \o <<128>> \o [i \in 1..zeros |-> 0]
       \o <<bits % 256, (bits \div 256) % 256, (bits \div 65536) % 256,
            bits \div 16777216, 0, 0, 0, 0>>

\* Word g (from 0) of the block that starts after `from` bytes, low byte
\* first.
Md5Word(padded, from, g) ==
  <<padded[from + 4 * g + 3] + 256 * padded[from + 4 * g + 4],
    padded[from + 4 * g + 1] + 256 * padded[from + 4 * g + 2]>>

\* floor(2^32 * abs(sin(i))) for i = 1..64.
Md5K ==
  <<
    <<55146, 42104>>, <<59591, 46934>>, <<9248, 28891>>, <<49597, 52974>>,
    <<62844, 4015>>, <<18311, 50730>>, <<43056, 17939>>, <<64838, 38145>>,
    <<27008, 39128>>, <<35652, 63407>>, <<65535, 23473>>, <<35164, 55230>>,
    <<27536, 4386>>, <<64920, 29075>>, <<42617, 17294>>, <<18868, 2081>>,
    <<63006, 9570>>, <<49216, 45888>>, <<9822, 23121>>, <<59830, 51114>>,
    <<54831, 4189>>, <<580, 5203>>, <<55457, 59009>>, <<59347, 64456>>,
    <<8673, 52710>>, <<49975, 2006>>, <<62677, 3463>>, <<17754, 5357>>,
    <<43491, 59653>>, <<64751, 41976>>, <<26479, 729>>, <<36138, 19594>>,
    <<65530, 14658>>, <<34673, 63105>>, <<28061, 24866>>, <<64997, 14348>>,
    <<42174, 59972>>, <<19422, 53161>>, <<63163, 19296>>, <<48831, 48240>>,
    <<10395, 32454>>, <<60065, 10234>>, <<54511, 12421>>, <<1160, 7429>>,
    <<55764, 53305>>, <<59099, 39397>>, <<8098, 31992>>, <<50348, 22117>>,
    <<62505, 8772>>, <<17194, 65431>>, <<43924, 9127>>, <<64659, 41017>>,
    <<25947, 22979>>, <<36620, 52370>>, <<65519, 62589>>, <<34180, 24017>>,
    <<28584, 32335>>, <<65068, 59104>>, <<41729, 17172>>, <<19976, 4513>>,
    <<63315, 32386>>, <<48442, 62005>>, <<10967, 53947>>, <<60294, 54161>>
  >>

\* The left rotation of each of the 64 steps.
Md5S ==
  <<
    7, 12, 17, 22, 7, 12, 17, 22, 7, 12, 17, 22, 7, 12, 17, 22,
    5, 9, 14, 20, 5, 9, 14, 20, 5, 9, 14, 20, 5, 9, 14, 20,
    4, 11, 16, 23, 4, 11, 16, 23, 4, 11, 16, 23, 4, 11, 16, 23,
    6, 10, 15, 21, 6, 10, 15, 21, 6, 10, 15, 21, 6, 10, 15, 21
  >>

\* The four auxiliary functions of the rounds, on one bit.
Md5Bit(round, x, y, z) ==
  CASE round = 1 -> IF x = 1 THEN y ELSE z
    [] round = 2 -> IF z = 1 THEN x ELSE y
    [] round = 3 -> (x + y + z) % 2
    [] round = 4 -> (y + (IF x = 1 \/ z = 0 THEN 1 ELSE 0)) % 2

BitOf(n, i) == (n \div 2^i) % 2

\* The auxiliary functions on four bits at a time, tabulated: entry
\* [round][x + 1][y + 1][z + 1].
Md5Nibbles ==
  [round \in 1..4 |->
    [x \in 1..16 |->
      [y \in 1..16 |->
        [z \in 1..16 |->
           Md5Bit(round, BitOf(x - 1, 0), BitOf(y - 1, 0), BitOf(z - 1, 0))
           + 2 * Md5Bit(round, BitOf(x - 1, 1), BitOf(y - 1, 1), BitOf(z - 1, 1))
           + 4 * Md5Bit(round, BitOf(x - 1, 2), BitOf(y - 1, 2), BitOf(z - 1, 2))
           + 8 * Md5Bit(round, BitOf(x - 1, 3), BitOf(y - 1, 3), BitOf(z - 1, 3))]
        \o << >>] \o << >>] \o << >>] \o << >>

NibbleOf(half, j) == (half \div 16^j) % 16

Md5Half(round, x, y, z) ==
  LET t == Md5Nibbles[round]
  IN t[NibbleOf(x, 0) + 1][NibbleOf(y, 0) + 1][NibbleOf(z, 0) + 1]
     + 16 * t[NibbleOf(x, 1) + 1][NibbleOf(y, 1) + 1][NibbleOf(z, 1) + 1]
     + 256 * t[NibbleOf(x, 2) + 1][NibbleOf(y, 2) + 1][NibbleOf(z, 2) + 1]
     + 4096 * t[NibbleOf(x, 3) + 1][NibbleOf(y, 3) + 1][NibbleOf(z, 3) + 1]

\* F, G, H or I of three words.
Md5Mix(round, x, y, z) ==
  <<Md5Half(round, x[1], y[1], z[1]), Md5Half(round, x[2], y[2], z[2])>>

\* The sum of the words of a sequence, modulo 2^32.
RECURSIVE SumHalves(_, _)
SumHalves(words, h) ==
  IF words = << >> THEN 0 ELSE words[1][h] + SumHalves(Tail(words), h)

Add32(words) ==
  LET low == SumHalves(words, 2)
  IN <<(SumHalves(words, 1) + (low \div 65536)) % 65536, low % 65536>>

\* The word rotated left by s bits, 0 <= s < 32.
RotateLeft(word, s) ==
  LET w == IF s >= 16 THEN <<word[2], word[1]>> ELSE word
      t == s % 16
  IN <<((w[1] * 2^t) % 65536) + (w[2] \div 2^(16 - t)),
       ((w[2] * 2^t) % 65536) + (w[1] \div 2^(16 - t))>>

\* The index of the message word step i (from 0) reads.
Md5Index(i) ==
  CASE i < 16 -> i
    [] i >= 16 /\ i < 32 -> (5 * i + 1) % 16
    [] i >= 32 /\ i < 48 -> (3 * i + 5) % 16
    [] i >= 48 -> (7 * i) % 16

\* One step on the state <<a, b, c, d>>.
Md5Step(st, padded, from, i) ==
  LET round == i \div 16 + 1
      sum == Add32(<<st[1], Md5Mix(round, st[2], st[3], st[4]), Md5K[i + 1],
                     Md5Word(padded, from, Md5Index(i))>>)
  IN <<st[4], Add32(<<st[2], RotateLeft(sum, Md5S[i + 1])>>), st[2], st[3]>>

RECURSIVE Md5Steps(_, _, _, _)
Md5Steps(st, padded, from, i) ==
  IF i = 64 THEN st
  ELSE CHOOSE out \in {Md5Steps(next, padded, from, i + 1) :
                         next \in {Md5Step(st, padded, from, i)}} : TRUE

\* The state after the blocks from `from` on.
RECURSIVE Md5Blocks(_, _, _)
Md5Blocks(st, padded, from) ==
  IF from >= Len(padded) THEN st
  ELSE CHOOSE out \in
         {Md5Blocks(<<Add32(<<st[1], after[1]>>), Add32(<<st[2], after[2]>>),
                      Add32(<<st[3], after[3]>>), Add32(<<st[4], after[4]>>)>>,
                    padded, from + 64) :
            after \in {Md5Steps(st, padded, from, 0)}} : TRUE

Md5Initial ==
  <<<<26437, 8961>>, <<61389, 43913>>, <<39098, 56574>>, <<4146, 21622>>>>

HexDigit(n) == SubSeq("0123456789abcdef", n + 1, n + 1)

HexByte(b) == HexDigit(b \div 16) \o HexDigit(b % 16)

\* The bytes of a word, low byte first, in hexadecimal.
HexWord(word) ==
  HexByte(word[2] % 256) \o HexByte(word[2] \div 256)
    \o HexByte(word[1] % 256) \o HexByte(word[1] \div 256)

Md5Digest(str) ==
  LET st == Md5Blocks(Md5Initial, Md5Pad(Utf8(str)) \o << >>, 0)
  IN HexWord(st[1]) \o HexWord(st[2]) \o HexWord(st[3]) \o HexWord(st[4])

\* The strings the handlers digest for the request bodies above, and their
\* digests, computed once.
Digested ==
  {JoinColon(Destructure(v, body), KeyFields(v)) :
     v \in Variants,
     body \in {b \in CropBodies \cup Bodies \cup PassBodies \cup LiveBodies :
                 "latex" \in DOMAIN b}}

Md5Known == [str \in Digested |-> Md5Digest(str)]

\* The digest of a string: looked up when it is one of those above,
\* computed otherwise.
Md5(str) == IF str \in Digested THEN Md5Known[str] ELSE Md5Digest(str)

hashKey(v, p) == Md5(JoinColon(p, KeyFields(v)))

(***************************************************************************)
(* The typesetter and rasterizer (MathJax, then sharp at density           *)
(* 72*scale): a black box, deterministic in the values it is given.  world *)
(* holds the RGBA raster it produces for each of them.                     *)
(***************************************************************************)
RasterKey(v, p) ==
  [latex |-> p.latex,
   scale |-> p.scale,
   fontSize |-> IF v \in {"server", "part_002"} THEN p.fontSize ELSE 0,
   display |-> IF v = "part_010" THEN p.display ELSE TRUE]

\* sharp(input, { density }): the constructor throws unless 1 <= density <= 100000.
DensityOk(scale) == 1 <= 72 * scale /\ 72 * scale <= 100000

RoundDiv(a, b) == (2 * a + b) \div (2 * b)

\* The pixel and the channel of the i-th byte (from 0) of a 4-channel image.
ByteX(i, width) == (i \div 4) % width

ByteY(i, width) == (i \div 4) \div width

ByteC(i) == i % 4

PixelByte(image, x, y, c) == image.data[(y * image.width + x) * image.channels + c + 1]

\* sharp's extend({top, bottom, left, right, background}) with one pad on
\* every side and a transparent background.
Extend(image, pad) ==
  IF pad < 0 THEN Err("Expected positive integer for extend")
  ELSE
    LET px(x, y, c) ==
          IF /\ pad <= x /\ x < pad + image.width
             /\ pad <= y /\ y < pad + image.height
          THEN PixelByte(image, x - pad, y - pad, c)
          ELSE 0
        W == image.width + 2 * pad
        H == image.height + 2 * pad
    IN  Image([i \in 1..(W * H * 4) |->
                 px(ByteX(i - 1, W), ByteY(i - 1, W), ByteC(i - 1))],
              W, H, 4)

\* sharp's resize({width, height, fit: "contain", background}): the content
\* scaled to fit and centred on a canvas of the size asked for, the rest
\* filled with the background; 0 stands for an omitted dimension, which
\* follows the aspect ratio.  Resampling is nearest-neighbour here.
ResizeContain(image, tw, th, bgAlpha) ==
  IF tw < 0 \/ th < 0 \/ (tw = 0 /\ th = 0)
  THEN Err("Expected positive integer for width or height")
  ELSE
    LET W == image.width
        H == image.height
        outW == IF tw = 0 THEN Max(1, RoundDiv(W * th, H)) ELSE tw
        outH == IF th = 0 THEN Max(1, RoundDiv(H * tw, W)) ELSE th
        byWidth == outW * H <= outH * W
        cw == IF byWidth THEN outW ELSE Max(1, RoundDiv(outH * W, H))
        ch == IF byWidth THEN Max(1, RoundDiv(outW * H, W)) ELSE outH
        ox == (outW - cw) \div 2
        oy == (outH - ch) \div 2
        px(x, y, c) ==
          IF ox <= x /\ x < ox + cw /\ oy <= y /\ y < oy + ch
          THEN PixelByte(image, ((x - ox) * W) \div cw, ((y - oy) * H) \div ch, c)
          ELSE IF c = 3 THEN bgAlpha ELSE 0
    IN  Image([i \in 1..(outW * outH * 4) |->
                 px(ByteX(i - 1, outW), ByteY(i - 1, outW), ByteC(i - 1))],
              outW, outH, 4)

\* sharp's trim(): the edges that look like the top-left pixel are cut off;
\* an image with nothing else in it is left as it is.
Trim(image) ==
  LET differs(x, y) ==
        \E c \in 0..(image.channels - 1) :
          PixelByte(image, x, y, c) # PixelByte(image, 0, 0, c)
      xs == {x \in 0..(image.width - 1) :
               \E y \in 0..(image.height - 1) : differs(x, y)}
      ys == {y \in 0..(image.height - 1) :
               \E x \in 0..(image.width - 1) : differs(x, y)}
  IN  IF xs = {} THEN image
      ELSE SharpExtract(image, Least(xs), Least(ys),
                        Greatest(xs) - Least(xs) + 1, Greatest(ys) - Least(ys) + 1)

(***************************************************************************)
(* The renderRaw handler.  A connection carries one request; pc is the     *)
(* await its handler is suspended at.                                      *)
(*   idle       no request received yet                                    *)
(*   rasterize  await sharpImg.toBuffer()          (SVG -> PNG)            *)
(*   resize     await sharp(png).resize().toBuffer()        (part_002)     *)
(*   raw        await sharp(png).raw().toBuffer()  (pixels for findBBox)   *)
(*   extract    await sharp(png).extract(bbox).toBuffer()                  *)
(*   metadata   await sharp(...).metadata()                                *)
(*   fullRaw    await sharp(cropped).raw().toBuffer(), then the tile loop  *)
(*   tileExtract  await sharp(png).extract(rows).raw().toBuffer(), inside  *)
(*              the tile loop of part_002: tiles holds the tiles pushed so *)
(*              far and y the first row of the tile awaited                *)
(*   looping    inside a tile loop that does not end                       *)
(*   done       response sent                                              *)
(***************************************************************************)
EmptyRecord == [x \in {} |-> TRUE]

NoResponse == [status |-> 0]

NoRequest == [none |-> TRUE]

IdleConn ==
  [pc |-> "idle", p |-> EmptyRecord, key |-> "", png |-> NoImage,
   bbox |-> NoBox, cropped |-> NoImage, tiles |-> << >>, y |-> 0,
   res |-> NoResponse]

Conns == DOMAIN conn

\* A synchronous loop that never ends keeps the event loop: nothing else runs.
Running == \A r \in Conns : conn[r].pc # "looping"

At(r, pc) == Running /\ conn[r].pc = pc

\* res.status(status).json(body), which ends the handler.
Respond(r, status, body) ==
  conn' = [conn EXCEPT ![r].pc = "done", ![r].res = [status |-> status, body |-> body]]

\* The stages the handler of r has gone through, in the order it went
\* through them: names are appended.
Log(r, names) == stages' = [stages EXCEPT ![r] = stages[r] \o names]

\* A catch that answers with a message of its own.
CatchGeneric(r, err) == Respond(r, 500, [error |-> "Internal Server Error"])

\* catch (err) { res.status(500).json({ error: err.message }) }
Catch(r, err) == Respond(r, 500, [error |-> err.error])

\* mathDocument.convert throws on markup MathJax cannot typeset.
Typesets(latex) == latex # "\\bad"

\* The error convert throws, with MathJax's message.
ConvertError(latex) == Err("TeX parse error: " \o latex)

\* A value the handler tests with `x ? ... : ...` or `a || b`.
Truthy(p, field) == field \in DOMAIN p /\ p[field] # 0

\* The handler from its first line to its first await.  req keeps the body
\* of the request and calls counts the handler's calls of
\* mathDocument.convert.
Receive(r, body) ==
  /\ At(r, "idle")
  /\ req' = [req EXCEPT ![r] = body]
  /\ LET p == Destructure(variant, body)
         key == hashKey(variant, p)
     IN  IF RejectsLatex(variant, p)
         THEN /\ Respond(r, 400, [error |-> RejectMessage(variant)])
              /\ Log(r, <<"respond">>)
              /\ UNCHANGED <<cache, calls>>
         ELSE IF key \in DOMAIN cache
         THEN /\ Respond(r, 200, cache[key])
              /\ Log(r, <<"lookup", "respond">>)
              /\ UNCHANGED <<cache, calls>>
         ELSE /\ calls' = [calls EXCEPT ![r] = calls[r] + 1]
              /\ UNCHANGED cache
              /\ IF ~Typesets(p.latex)
                 THEN /\ IF variant = "part_010"
                         THEN Respond(r, 400, [error |-> "MathJax parse error",
                                               details |-> ConvertError(p.latex).error])
                         ELSE Catch(r, ConvertError(p.latex))
                      /\ Log(r, <<"lookup", "typeset", "respond">>)
                 ELSE IF ~DensityOk(p.scale)
                 THEN /\ Catch(r, Err("Expected number between 1 and 100000 for density"))
                      /\ Log(r, <<"lookup", "typeset", "respond">>)
                 ELSE /\ conn' = [conn EXCEPT ![r].pc = "rasterize", ![r].p = p,
                                              ![r].key = key]
                      /\ Log(r, <<"lookup", "typeset">>)
  /\ UNCHANGED <<variant, world, unitVars>>

\* What the first toBuffer() does besides rasterizing: server.js resizes
\* (lines 88-94), part_002 trims, which is its crop (line 70).
RasterizeStages(v, p) ==
  CASE v = "server" ->
         IF p.scaleTo /\ (Truthy(p, "targetHeight") \/ Truthy(p, "targetWidth"))
         THEN <<"rasterize", "resize">>
         ELSE <<"rasterize">>
    [] v = "part_002" -> <<"rasterize", "crop">>
    [] OTHER -> <<"rasterize">>

\* Mutant: an SVG without area is read as an image without pixels.
SharpInputAny(raster) == raster

\* sharp(Buffer.from(svg), { density }): libvips holds no image of width or
\* height 0, so toBuffer() rejects an SVG that has no area.
SharpInput(raster) ==
  IF raster.width = 0 \/ raster.height = 0
  THEN Err("Input buffer has corrupt header")
  ELSE raster

\* The PNG the first toBuffer() resolves to: the raster, resized (server.js,
\* when scaleTo and a target are given), padded by the margin (part_003) or
\* trimmed (part_002).
Rasterize(v, p, raster) ==
  IF IsError(SharpInput(raster)) THEN SharpInput(raster)
  ELSE
  CASE v = "server" ->
         IF p.scaleTo /\ (Truthy(p, "targetHeight") \/ Truthy(p, "targetWidth"))
         THEN ResizeContain(raster,
                IF Truthy(p, "targetWidth") THEN p.targetWidth * p.scale ELSE 0,
                IF Truthy(p, "targetHeight") THEN p.targetHeight * p.scale ELSE 0,
                255)
         ELSE raster
    [] v = "part_002" -> Trim(raster)
    [] v = "part_003" -> Extend(raster, p.margin * p.scale)
    [] v = "part_010" -> raster

Rasterized(r) ==
  /\ At(r, "rasterize")
  /\ LET png == Rasterize(variant, conn[r].p, world[RasterKey(variant, conn[r].p)])
     IN  IF IsError(png) THEN Catch(r, png) /\ Log(r, <<"respond">>)
         ELSE /\ conn' = [conn EXCEPT ![r].png = png,
                                      ![r].pc = IF variant = "part_002" THEN "resize"
                                                ELSE "raw"]
              /\ Log(r, RasterizeStages(variant, conn[r].p))
  /\ UNCHANGED <<variant, world, cache, req, calls, unitVars>>

\* part_002: the resize to the editable image, fit contain, transparent.
Resized(r) ==
  /\ At(r, "resize")
  /\ LET png == ResizeContain(conn[r].png, conn[r].p.targetWidth,
                              conn[r].p.targetHeight, 0)
     IN  IF IsError(png) THEN Catch(r, png) /\ Log(r, <<"respond">>)
         ELSE /\ conn' = [conn EXCEPT ![r].png = png, ![r].pc = "metadata"]
              /\ Log(r, <<"resize">>)
  /\ UNCHANGED <<variant, world, cache, req, calls, unitVars>>

\* Mutant: the fallback is the top-left pixel instead of the whole image.
BBoxOrCorner(raw) ==
  LET box == findBBoxDefault(raw.data, raw.width, raw.height, raw.channels)
  IN  IF box = NoBox THEN [left |-> 0, top |-> 0, width |-> 1, height |-> 1]
      ELSE box

\* const bbox = findBBox(raw.data, ...) || { left: 0, top: 0, width, height }
BBoxOrFull(raw) ==
  LET box == findBBoxDefault(raw.data, raw.width, raw.height, raw.channels)
  IN  IF box = NoBox
      THEN [left |-> 0, top |-> 0, width |-> raw.width, height |-> raw.height]
      ELSE box

\* The raw pixels arrive: the bounding box is found and the crop is started.
RawRead(r) ==
  /\ At(r, "raw")
  /\ conn' = [conn EXCEPT ![r].bbox = BBoxOrFull(conn[r].png), ![r].pc = "extract"]
  /\ Log(r, <<"bbox">>)
  /\ UNCHANGED <<variant, world, cache, req, calls, unitVars>>

\* Mutant: the PNG is kept in one variable that the handlers share, so that
\* the crop is cut from the PNG of the first connection.
CroppedShared(r) ==
  /\ At(r, "extract")
  /\ LET b == conn[r].bbox
         shared == conn[Least(Conns)].png
         cropped == SharpExtract(shared, b.left, b.top, b.width, b.height)
     IN  IF IsError(cropped) THEN Catch(r, cropped) /\ Log(r, <<"respond">>)
         ELSE /\ conn' = [conn EXCEPT ![r].cropped = cropped, ![r].pc = "metadata"]
              /\ Log(r, <<"crop">>)
  /\ UNCHANGED <<variant, world, cache, req, calls, unitVars>>

\* sharp(png).extract(bbox) resolves, or rejects a rectangle outside the image.
Cropped(r) ==
  /\ At(r, "extract")
  /\ LET b == conn[r].bbox
         cropped == SharpExtract(conn[r].png, b.left, b.top, b.width, b.height)
     IN  IF IsError(cropped) THEN Catch(r, cropped) /\ Log(r, <<"respond">>)
         ELSE /\ conn' = [conn EXCEPT ![r].cropped = cropped, ![r].pc = "metadata"]
              /\ Log(r, <<"crop">>)
  /\ UNCHANGED <<variant, world, cache, req, calls, unitVars>>

\* The payload each server builds from its tiles.
Payload(v, tiles, image, p, bbox) ==
  IF v = "part_002"
  THEN [tiles |-> tiles, width |-> image.width, height |-> image.height,
        channels |-> image.channels]
  ELSE [tiles |-> tiles, width |-> image.width, height |-> image.height,
        channels |-> 4, tileHeight |-> p.tileHeight, crop |-> bbox]

\* cache.set(key, payload); res.json(payload)
StoreAndSend(r, payload) ==
  /\ cache' = (conn[r].key :> payload) @@ cache
  /\ Respond(r, 200, payload)

\* metadata() resolves: finalW and finalH.  In part_002, which has cropped
\* nothing, width, height and channels, and the handler enters its tile
\* loop: with y = 0 below height it calls extract for the first tile, which
\* throws at once when the tile's height is below 0, and awaits it.
Measured(r) ==
  /\ At(r, "metadata")
  /\ IF variant = "part_002"
     THEN LET image == conn[r].png
              h == Min(conn[r].p.tileHeight, image.height)
          IN  IF ~(0 < image.height)
              THEN /\ StoreAndSend(r, Payload(variant, << >>, image, conn[r].p,
                                              conn[r].bbox))
                   /\ Log(r, <<"store", "respond">>)
              ELSE IF ExtractRejects(0, 0, image.width, h)
              THEN /\ Catch(r, ExtractRejection(0, 0, image.width, h))
                   /\ Log(r, <<"tile", "respond">>)
                   /\ UNCHANGED cache
              ELSE /\ conn' = [conn EXCEPT ![r].cropped = image,
                                           ![r].pc = "tileExtract",
                                           ![r].tiles = << >>, ![r].y = 0]
                   /\ Log(r, <<"tile">>)
                   /\ UNCHANGED cache
     ELSE IF variant = "part_003"
             /\ (conn[r].cropped.width = 0 \/ conn[r].cropped.height = 0)
     THEN /\ Catch(r, Err("Invalid cropped image dimensions."))
          /\ Log(r, <<"respond">>)
          /\ UNCHANGED cache
     ELSE /\ conn' = [conn EXCEPT ![r].pc = "fullRaw"]
          /\ UNCHANGED <<stages, cache>>
  /\ UNCHANGED <<variant, world, req, calls, unitVars>>

\* part_002: the extract of the tile at y settles.  A rejection is caught.
\* Otherwise the tile is pushed and y grows by tileHeight; below height the
\* handler calls extract for the next tile and awaits it, and at the end of
\* the loop it builds the payload, stores it and responds.
TileExtracted(r) ==
  /\ At(r, "tileExtract")
  /\ \E tile \in {ExtractTile(conn[r].cropped, conn[r].cropped.width,
                               conn[r].cropped.height, conn[r].p.tileHeight,
                               conn[r].y)} :
       IF IsError(tile)
       THEN /\ Catch(r, tile)
            /\ Log(r, <<"respond">>)
            /\ UNCHANGED cache
       ELSE \E tiles \in {Append(conn[r].tiles, Base64Encode(tile.data))} :
              IF conn[r].y + conn[r].p.tileHeight < conn[r].cropped.height
              THEN /\ conn' = [conn EXCEPT ![r].tiles = tiles,
                                           ![r].y = @ + conn[r].p.tileHeight]
                   /\ UNCHANGED <<cache, stages>>
              ELSE /\ StoreAndSend(r, Payload(variant, tiles, conn[r].cropped,
                                              conn[r].p, conn[r].bbox))
                   /\ Log(r, <<"store", "respond">>)
  /\ UNCHANGED <<variant, world, req, calls, unitVars>>

\* The raw pixels of the crop arrive (server.js, part_003, part_010): the
\* tile loop over subarray, the payload, the cache store and the response,
\* with nothing awaited in between.  The loop never ends when
\* tileHeight <= 0.
Tile(r) ==
  /\ At(r, "fullRaw")
  /\ LET p == conn[r].p
         image == conn[r].cropped
     IN  IF p.tileHeight <= 0
         THEN /\ conn' = [conn EXCEPT ![r].pc = "looping"]
              /\ Log(r, <<"tile">>)
              /\ UNCHANGED cache
         ELSE /\ StoreAndSend(r,
                   Payload(variant,
                           SubarrayTiles(image.data, image.width, image.height, p.tileHeight),
                           image, p, conn[r].bbox))
              /\ Log(r, <<"tile", "store", "respond">>)
  /\ UNCHANGED <<variant, world, req, calls, unitVars>>

(***************************************************************************)
(* The rasters and the requests of the model.                              *)
(***************************************************************************)
MaxRasterW == 2

MaxRasterH == 2

Rasters ==
  UNION {{Painted(w, h, 4, ink) : ink \in Inks(w * h)} :
           w \in 1..MaxRasterW, h \in 1..MaxRasterH}

\* The markup whose typesetting succeeds, and the rasters to ask for.
RasterKeys(v, bodies) ==
  {RasterKey(v, Destructure(v, b)) :
     b \in {c \in bodies :
              LET p == Destructure(v, c)
              IN  ~RejectsLatex(v, p) /\ Typesets(p.latex) /\ DensityOk(p.scale)}}

ServerInit(bodies, rasters, conns) ==
  /\ variant \in Variants
  /\ world \in [RasterKeys(variant, bodies) -> rasters]
  /\ cache = EmptyRecord
  /\ conn = [r \in conns |-> IdleConn]
  /\ req = [r \in conns |-> NoRequest]
  /\ calls = [r \in conns |-> 0]
  /\ stages = [r \in conns |-> << >>]
  /\ img = NoImage
  /\ tiling = NoTiling
  /\ boxes = {}
  /\ keying = NoKeying
  /\ stack = NoStack

(***************************************************************************)
(* SpecCrop: one request through the pipeline, for every raster.  The      *)
(* requests differ in margin, tileHeight and the resize they ask for.      *)
(***************************************************************************)
\* The raster of an SVG without area.
Degenerate == Image(<< >>, 0, 0, 4)

InitCrop == ServerInit(CropBodies, Rasters \cup {Example4x4, Degenerate}, {1})

NextCrop ==
  \/ \E r \in Conns, body \in CropBodies : Receive(r, body)
  \/ \E r \in Conns : Rasterized(r)
  \/ \E r \in Conns : Resized(r)
  \/ \E r \in Conns : RawRead(r)
  \/ \E r \in Conns : Cropped(r)
  \/ \E r \in Conns : Measured(r)
  \/ \E r \in Conns : TileExtracted(r)
  \/ \E r \in Conns : Tile(r)

SpecCrop == InitCrop /\ [][NextCrop]_vars

(***************************************************************************)
(* Spec: two connections, whose handlers interleave at their awaits.       *)
(***************************************************************************)
Blank == Painted(1, 1, 4, EmptyRecord)

Dot == Painted(2, 2, 4, (1 :> 255))

ConnIds == {1, 2}

Init == ServerInit(Bodies, {Blank, Dot}, ConnIds)

Next ==
  \/ \E r \in Conns, body \in Bodies : Receive(r, body)
  \/ \E r \in Conns : Rasterized(r)
  \/ \E r \in Conns : Resized(r)
  \/ \E r \in Conns : RawRead(r)
  \/ \E r \in Conns : Cropped(r)
  \/ \E r \in Conns : Measured(r)
  \/ \E r \in Conns : TileExtracted(r)
  \/ \E r \in Conns : Tile(r)

Spec == Init /\ [][Next]_vars

\* A continuation of the handler of r: what the event loop runs once the
\* promise the handler awaits is settled.
Continue(r) ==
  \/ Rasterized(r)
  \/ Resized(r)
  \/ RawRead(r)
  \/ Cropped(r)
  \/ Measured(r)
  \/ TileExtracted(r)
  \/ Tile(r)

(***************************************************************************)
(* SpecThree: three connections, so that a request can arrive after two    *)
(* concurrent requests were answered.  The requests are those of Spec that *)
(* differ in a field a key leaves out: scaleTo in server.js, tileHeight in *)
(* part_002.                                                               *)
(***************************************************************************)
ThreeBodies == {XBase, XBase @@ [scaleTo |-> TRUE], XBase @@ [tileHeight |-> 1]}

ThreeConnIds == {1, 2, 3}

InitThree == ServerInit(ThreeBodies, {Dot}, ThreeConnIds)

NextThree ==
  \/ \E r \in Conns, body \in ThreeBodies : Receive(r, body)
  \/ \E r \in Conns : Rasterized(r)
  \/ \E r \in Conns : Resized(r)
  \/ \E r \in Conns : RawRead(r)
  \/ \E r \in Conns : Cropped(r)
  \/ \E r \in Conns : Measured(r)
  \/ \E r \in Conns : TileExtracted(r)
  \/ \E r \in Conns : Tile(r)

SpecThree == InitThree /\ [][NextThree]_vars

(***************************************************************************)
(* SpecPass: one request that leaves out one target or both.  part_002     *)
(* fills in its defaults, 800 by 600.                                      *)
(***************************************************************************)
InitPass == ServerInit(PassBodies, {Dot}, {1})

NextPass ==
  \/ \E r \in Conns, body \in PassBodies : Receive(r, body)
  \/ \E r \in Conns : Rasterized(r)
  \/ \E r \in Conns : Resized(r)
  \/ \E r \in Conns : RawRead(r)
  \/ \E r \in Conns : Cropped(r)
  \/ \E r \in Conns : Measured(r)
  \/ \E r \in Conns : TileExtracted(r)
  \/ \E r \in Conns : Tile(r)

SpecPass == InitPass /\ [][NextPass]_vars

(***************************************************************************)
(* LiveSpec: every promise of sharp settles and the event loop runs every  *)
(* continuation that is ready.  Few requests, for the check of liveness.   *)
(***************************************************************************)
InitLive == ServerInit(LiveBodies, {Dot}, ConnIds)

NextLive ==
  \/ \E r \in Conns, body \in LiveBodies : Receive(r, body)
  \/ \E r \in Conns : Rasterized(r)
  \/ \E r \in Conns : Resized(r)
  \/ \E r \in Conns : RawRead(r)
  \/ \E r \in Conns : Cropped(r)
  \/ \E r \in Conns : Measured(r)
  \/ \E r \in Conns : TileExtracted(r)
  \/ \E r \in Conns : Tile(r)

LiveSpec ==
  InitLive /\ [][NextLive]_vars /\ \A r \in ConnIds : WF_vars(Continue(r))

(***************************************************************************)
(* Properties of the tilers (SpecTiler).                                   *)
(***************************************************************************)
RowBytes == img.width * img.channels

\* Source rows first..last-1 of the raster under test.
SourceRows(first, last) == SubSeq(img.data, first * RowBytes + 1, last * RowBytes)

\* C1: the tiles of a finished tiler call, decoded and concatenated in index
\* order, are exactly the buffer the tiler was given.
TilerRoundTrip ==
  tiling.done => DecodeTiles(tiling.tiles) = img.data

TilerRoundTripWitness ==
  /\ tiling.done
  /\ tiling.tiler = "splitBufferToTiles"
  /\ Len(tiling.tiles) >= 2
  /\ img.height % tiling.tileHeight # 0
  /\ DecodeTiles(tiling.tiles) = img.data

\* C2: a finished tiler call has emitted ceil(height/tileHeight) tiles, and
\* tile i holds exactly source rows [i*tileHeight, min((i+1)*tileHeight, height)).
TilerCoverage ==
  tiling.done =>
    LET th == tiling.tileHeight
        n == Len(tiling.tiles)
    IN  /\ n = (img.height + th - 1) \div th
        /\ \A i \in 1..n :
             Base64Decode(tiling.tiles[i])
               = SourceRows((i - 1) * th, Min(i * th, img.height))
        /\ \A i \in 1..(n - 1) :
             Len(Base64Decode(tiling.tiles[i])) = th * RowBytes
        /\ Len(Base64Decode(tiling.tiles[n]))
             = (IF img.height % th = 0 THEN th ELSE img.height % th) * RowBytes
        /\ (th >= img.height =>
              n = 1 /\ Base64Decode(tiling.tiles[1]) = img.data)

\* The loop without a min, on 5 rows cut by 2: three tiles of 2, 2 and 1 rows.
TilerCoverageWitness ==
  /\ tiling.done
  /\ tiling.tiler = "DebugTiles"
  /\ img.height = 5 /\ tiling.tileHeight = 2
  /\ Len(tiling.tiles) = 3
  /\ Len(Base64Decode(tiling.tiles[3])) = RowBytes

(***************************************************************************)
(* Properties of findBBox (SpecBBox).                                      *)
(***************************************************************************)
\* The alpha byte of pixel (x, y) of the RGBA raster under test.
AlphaAt(x, y) == img.data[(y * img.width + x) * 4 + 3 + 1]

Pixels == (0..(img.width - 1)) \X (0..(img.height - 1))

VisibleAbove(t) == {p \in Pixels : AlphaAt(p[1], p[2]) > t}

Inside(p, box) ==
  /\ box.left <= p[1] /\ p[1] < box.left + box.width
  /\ box.top <= p[2] /\ p[2] < box.top + box.height

\* box is the tight box of the pixel set vis.
TightAround(box, vis) ==
  /\ \A p \in vis : Inside(p, box)
  /\ \E p \in vis : p[1] = box.left
  /\ \E p \in vis : p[1] = box.left + box.width - 1
  /\ \E p \in vis : p[2] = box.top
  /\ \E p \in vis : p[2] = box.top + box.height - 1

\* C4: a box findBBox returns for an RGBA image encloses every pixel whose
\* alpha exceeds the threshold and each of its four edges holds such a pixel;
\* the 4x4 scenario at threshold 1 gives {left 1, top 1, width 2, height 2}.
BBoxTight ==
  img.channels = 4 =>
    \A c \in boxes :
      /\ c.box # NoBox => TightAround(c.box, VisibleAbove(c.threshold))
      /\ (img = Example4x4 /\ c.threshold = 1) =>
           c.box = [left |-> 1, top |-> 1, width |-> 2, height |-> 2]

BBoxTightWitness ==
  /\ img = Example4x4
  /\ \E c \in boxes :
       /\ c.threshold = 1
       /\ c.box = [left |-> 1, top |-> 1, width |-> 2, height |-> 2]

\* C5: findBBox returns no box exactly when no alpha exceeds the threshold,
\* and a raster with a single pixel (x, y) above the threshold gives the box
\* {left x, top y, width 1, height 1}.
BBoxEmptiness ==
  img.channels = 4 =>
    \A c \in boxes :
      /\ c.box = NoBox <=> VisibleAbove(c.threshold) = {}
      /\ \A p \in Pixels :
           VisibleAbove(c.threshold) = {p} =>
             c.box = [left |-> p[1], top |-> p[2], width |-> 1, height |-> 1]

\* One raster, two thresholds: nothing above the one, a single pixel above
\* the other.
BBoxEmptinessWitness ==
  /\ img.channels = 4 /\ img.width >= 2 /\ img.height >= 2
  /\ \E c \in boxes : c.box = NoBox /\ VisibleAbove(0) # {}
  /\ \E c \in boxes :
       /\ c.box # NoBox /\ c.box.width = 1 /\ c.box.height = 1
       /\ c.box.left >= 1 /\ c.box.top >= 1

\* C6: for thresholds t1 < t2 on one RGBA raster, a box at t2 comes with a
\* box at t1 that contains it.
BBoxMonotone ==
  img.channels = 4 =>
    \A c1, c2 \in boxes :
      (c1.threshold < c2.threshold /\ c2.box # NoBox) =>
        /\ c1.box # NoBox
        /\ c1.box.left <= c2.box.left
        /\ c1.box.top <= c2.box.top
        /\ c1.box.left + c1.box.width >= c2.box.left + c2.box.width
        /\ c1.box.top + c1.box.height >= c2.box.top + c2.box.height

BBoxMonotoneWitness ==
  /\ img.channels = 4
  /\ \E c1, c2 \in boxes :
       /\ c1.threshold < c2.threshold
       /\ c2.box # NoBox /\ c1.box # NoBox
       /\ c1.box.width > c2.box.width
       /\ c1.box.height > c2.box.height

\* C7 as stated: with the default threshold every pixel of alpha >= 1 counts,
\* so a call without the fifth argument returns the tight box of the pixels
\* that are not fully transparent.
BBoxDefaultCountsAlphaOne ==
  img.channels = 4 =>
    \A c \in boxes :
      ~c.explicit =>
        /\ c.box = NoBox <=> VisibleAbove(0) = {}
        /\ c.box # NoBox => TightAround(c.box, VisibleAbove(0))

\* C7 amended: with the default threshold (1) a pixel counts when its alpha
\* is at least 2; a raster whose alphas are all 0 or 1 gives no box.
BBoxDefaultCountsAboveOne ==
  img.channels = 4 =>
    \A c \in boxes :
      ~c.explicit =>
        /\ c.box = NoBox <=> VisibleAbove(1) = {}
        /\ c.box # NoBox => TightAround(c.box, VisibleAbove(1))

\* A raster whose only non-zero alpha value is 1, and the default call made.
BBoxDefaultWitness ==
  /\ img.channels = 4
  /\ VisibleAbove(0) # {} /\ VisibleAbove(1) = {}
  /\ \E c \in boxes : ~c.explicit /\ c.box = NoBox

\* C8 as stated: for a raster of fewer than 4 channels findBBox returns the
\* full-image box.
BBoxNoAlphaIsFullImage ==
  img.channels < 4 =>
    \A c \in boxes :
      c.box = [left |-> 0, top |-> 0, width |-> img.width, height |-> img.height]

(***************************************************************************)
(* Properties of the renderRaw pipeline (SpecCrop).                        *)
(***************************************************************************)
Responded(r) == conn[r].res.status = 200

\* The number of bytes each tile of a payload decodes to.
TileBytes(tiles) == [i \in DOMAIN tiles |-> Len(Base64Decode(tiles[i]))]

RECURSIVE SumSeq(_)
SumSeq(ns) == IF ns = << >> THEN 0 ELSE Head(ns) + SumSeq(Tail(ns))

\* C3 as stated: in every successful response the bytes of the tiles add up
\* to width * height * channels, the payload carries a tileHeight, which is
\* the tile height of the request, and every tile but the last holds
\* tileHeight rows of width pixels.
PayloadConsistent ==
  \A r \in Conns :
    Responded(r) =>
      LET body == conn[r].res.body
          sizes == TileBytes(body.tiles)
      IN  /\ SumSeq(sizes) = body.width * body.height * body.channels
          /\ "tileHeight" \in DOMAIN body
          /\ body.tileHeight = conn[r].p.tileHeight
          /\ \A i \in 1..(Len(sizes) - 1) :
               sizes[i] = body.tileHeight * body.width * body.channels

\* The rectangle of a connection that has got as far as the extract step.
HasCrop(r) == conn[r].bbox # NoBox

\* C9: the rectangle handed to extract has a positive width and height and
\* lies within the image it is cut from: 0 <= left, 0 <= top,
\* left + width <= W and top + height <= H.
CropInBounds ==
  \A r \in Conns :
    HasCrop(r) =>
      LET b == conn[r].bbox
          src == conn[r].png
      IN  /\ b.width > 0 /\ b.height > 0
          /\ 0 <= b.left /\ 0 <= b.top
          /\ b.left + b.width <= src.width
          /\ b.top + b.height <= src.height

\* A crop that is a proper part of its source has been extracted, its right
\* and bottom edges on the source's.
CropInBoundsWitness ==
  \E r \in Conns :
    /\ HasCrop(r)
    /\ conn[r].cropped # NoImage
    /\ conn[r].bbox.left > 0 /\ conn[r].bbox.top > 0
    /\ conn[r].bbox.left + conn[r].bbox.width = conn[r].png.width
    /\ conn[r].bbox.top + conn[r].bbox.height = conn[r].png.height
    /\ conn[r].cropped.width = conn[r].bbox.width

\* The pixels of an RGBA image whose alpha is above the default threshold.
InkOf(image) ==
  {q \in (0..(image.width - 1)) \X (0..(image.height - 1)) :
     PixelByte(image, q[1], q[2], 3) > DefaultAlphaThreshold}

\* The tight box of a non-empty pixel set.
Hull(ink) ==
  LET xs == {q[1] : q \in ink}
      ys == {q[2] : q \in ink}
  IN  [left |-> Least(xs), top |-> Least(ys),
       width |-> Greatest(xs) - Least(xs) + 1,
       height |-> Greatest(ys) - Least(ys) + 1]

\* The rule of the margin: the box grown by margin on every side, clamped.
Expand(box, margin, W, H) ==
  LET left == Max(0, box.left - margin)
      top == Max(0, box.top - margin)
  IN  [left |-> left, top |-> top,
       width |-> Min(W - left, box.width + 2 * margin),
       height |-> Min(H - top, box.height + 2 * margin)]

\* C10 as stated: the rectangle cropped is the tight box of the visible
\* pixels grown by the request's margin on every side and clamped to the
\* source.
CropIsExpandedByMargin ==
  \A r \in Conns :
    (HasCrop(r) /\ InkOf(conn[r].png) # {}) =>
      conn[r].bbox = Expand(Hull(InkOf(conn[r].png)), conn[r].p.margin,
                            conn[r].png.width, conn[r].png.height)

\* The whole of an image as a rectangle.
FullImage(image) ==
  [left |-> 0, top |-> 0, width |-> image.width, height |-> image.height]

\* C11: when the raster holds no visible pixel (findBBox returns null) the
\* rectangle cropped is the whole image, and the request, once answered, has
\* succeeded with a payload of the whole image's width and height.
NoContentFallback ==
  \A r \in Conns :
    (HasCrop(r) /\ InkOf(conn[r].png) = {}) =>
      /\ conn[r].bbox = FullImage(conn[r].png)
      /\ conn[r].pc = "done" =>
           /\ conn[r].res.status = 200
           /\ conn[r].res.body.width = conn[r].png.width
           /\ conn[r].res.body.height = conn[r].png.height
           /\ conn[r].res.body.crop = FullImage(conn[r].png)

\* A transparent raster of more than one pixel has been answered in full.
NoContentFallbackWitness ==
  \E r \in Conns :
    /\ HasCrop(r) /\ InkOf(conn[r].png) = {}
    /\ conn[r].png.width >= 2 /\ conn[r].png.height >= 2
    /\ conn[r].pc = "done" /\ conn[r].res.status = 200
    /\ conn[r].res.body.width = conn[r].png.width
    /\ Len(conn[r].res.body.tiles) >= 1

(***************************************************************************)
(* Properties of the cache and of concurrent requests (Spec).              *)
(***************************************************************************)
\* The parameters of a request, defaults filled in.
Params(body) == Destructure(variant, body)

\* Connection r receives the request body in this step.
Arrives(r, body) == conn[r].pc = "idle" /\ req'[r] = body /\ conn'[r].pc # "idle"

\* A request that arrives after a request with identical parameters was
\* answered with a payload is answered in that step with the same payload,
\* from the cache, and does not call the typesetter.
CacheIdempotentStep ==
  \A r, q \in Conns :
    \A body \in Bodies :
      (/\ Arrives(r, body)
       /\ conn[q].res.status = 200
       /\ Params(req[q]) = Params(body))
      => /\ conn'[r].pc = "done"
         /\ conn'[r].res = conn[q].res
         /\ calls'[r] = 0
         /\ cache' = cache

\* C12 as stated: of two requests with identical parameters handled one
\* after the other, the second is served from the cache, byte for byte the
\* response of the first, without a second call of the typesetter.
CacheIdempotent == [][CacheIdempotentStep]_vars

\* The same where the key covers every field the handler reads (part_003,
\* part_010).
CacheIdempotentWhereHashed ==
  [][(variant \in {"part_003", "part_010"}) => CacheIdempotentStep]_vars

\* The handler of r is between its first await and its response: a render
\* (raster, crop, tiles) is in flight.
InFlight(r) ==
  conn[r].pc \in {"rasterize", "resize", "raw", "extract", "metadata", "fullRaw",
                 "tileExtract"}

\* C13 as stated: at most one render is in flight per fingerprint.
OneRenderPerFingerprint ==
  \A r, q \in Conns :
    (r # q /\ InFlight(r) /\ InFlight(q)) => conn[r].key # conn[q].key

\* The payload a render of the parameters p produces on its own, or the
\* error it ends with: the stages of the handler, one after the other.
FreshRender(v, p) ==
  LET first == Rasterize(v, p, world[RasterKey(v, p)])
      png == IF v = "part_002" /\ ~IsError(first)
             THEN ResizeContain(first, p.targetWidth, p.targetHeight, 0)
             ELSE first
  IN  IF IsError(png) THEN png
      ELSE IF v = "part_002"
      THEN LET t == ExtractTiles(png, png.width, png.height, p.tileHeight)
           IN  IF IsError(t) THEN t ELSE Payload(v, t.tiles, png, p, NoBox)
      ELSE LET bbox == BBoxOrFull(png)
               cropped == SharpExtract(png, bbox.left, bbox.top, bbox.width, bbox.height)
           IN  IF IsError(cropped) THEN cropped
               ELSE IF p.tileHeight <= 0 THEN Err("no response")
               ELSE Payload(v, SubarrayTiles(cropped.data, cropped.width,
                                             cropped.height, p.tileHeight),
                            cropped, p, bbox)

\* C14 as stated: every payload a request is answered with, from the cache
\* or not, is the payload a fresh render of that request's parameters
\* produces.
AnswerIsFreshRender ==
  \A r \in Conns :
    conn[r].res.status = 200 =>
      conn[r].res.body = FreshRender(variant, Params(req[r]))

\* The values of a request's parameters once the defaults are filled in.
WithDefaults(body) == Restrict(body, FieldsRead(variant)) @@ Defaults(variant)

\* r has sent a request that passed the validation, so that its key was
\* computed.
Keyed(r) == req[r] # NoRequest /\ ~RejectsLatex(variant, WithDefaults(req[r]))

\* The key the handler of r computes.
KeyOf(r) == hashKey(variant, Destructure(variant, req[r]))

\* C15: two requests whose parameter values are the same once the defaults
\* are filled in have the same cache key, whichever arrives first and
\* whatever the cache holds.
KeyDeterministic ==
  \A r, q \in Conns :
    (Keyed(r) /\ Keyed(q) /\ WithDefaults(req[r]) = WithDefaults(req[q]))
    => /\ KeyOf(r) = KeyOf(q)
       /\ conn[r].key # "" => conn[r].key = KeyOf(r)

\* One request leaves tileHeight out and renders; the other passes the
\* default and finds the first one's cache entry.
KeyDeterministicWitness ==
  \E r, q \in Conns :
    /\ Keyed(r) /\ Keyed(q)
    /\ "tileHeight" \notin DOMAIN req[r]
    /\ "tileHeight" \in DOMAIN req[q]
    /\ WithDefaults(req[r]) = WithDefaults(req[q])
    /\ calls[r] = 1 /\ conn[r].res.status = 200
    /\ calls[q] = 0 /\ conn[q].res.status = 200
    /\ KeyOf(q) \in DOMAIN cache

\* Every entry of the cache is kept by the step, payload unchanged.
CacheKeptStep ==
  \A k \in DOMAIN cache : k \in DOMAIN cache' /\ cache'[k] = cache[k]

\* C16 as stated: once a key is in the cache it stays there and its payload
\* never changes.
CacheWriteOnce == [][CacheKeptStep]_vars

(***************************************************************************)
(* Properties of the error paths (Spec).                                   *)
(***************************************************************************)
\* The markup of a request is missing, empty, or only whitespace.
NoMarkup(body) == "latex" \notin DOMAIN body \/ StringTrim(body.latex) = ""

\* The response of r is an error object.
ErrorResponse(r) ==
  /\ conn[r].res.status \in {400, 500}
  /\ "error" \in DOMAIN conn[r].res.body

\* C17 as stated: a request without markup, or with markup that is empty
\* once trimmed, is answered with an error and the typesetter is not called
\* for it.
NoMarkupRejected ==
  \A r \in Conns :
    (req[r] # NoRequest /\ NoMarkup(req[r]))
    => /\ conn[r].pc = "done"
       /\ ErrorResponse(r)
       /\ calls[r] = 0

\* A numeric parameter that has to be positive is given as zero or less.
NonPositive(body) ==
  \E f \in {"tileHeight", "scale", "fontSize"} : f \in DOMAIN body /\ body[f] <= 0

\* C18 as stated: a request with a non-positive tileHeight, scale or
\* fontSize is answered with an error at once, before any rasterization
\* starts.
NonPositiveRejected ==
  \A r \in Conns :
    (req[r] # NoRequest /\ ~NoMarkup(req[r]) /\ NonPositive(req[r]))
    => /\ conn[r].pc = "done"
       /\ ErrorResponse(r)

\* C19: every request receives a response (the first part of the claim:
\* exactly one response per request).
EveryRequestAnswered ==
  \A r \in ConnIds : (req[r] # NoRequest) ~> (conn[r].res.status # 0)

\* The rest of C19, about the responses that are sent: a response is a
\* payload with all its tiles or an error object without tiles.
AllOrNothing ==
  \A r \in Conns :
    \/ conn[r].res = NoResponse
    \/ /\ conn[r].res.status = 200
       /\ SumSeq(TileBytes(conn[r].res.body.tiles))
            = conn[r].res.body.width * conn[r].res.body.height
                * conn[r].res.body.channels
    \/ /\ ErrorResponse(r)
       /\ "tiles" \notin DOMAIN conn[r].res.body

\* The rest of C19, about the cache: the step that answers a request with an
\* error stores nothing, and a response once sent is never replaced.
FailureStoresNothingStep ==
  \A r \in Conns :
    /\ (conn[r].res = NoResponse /\ conn'[r].res.status >= 400) => cache' = cache
    /\ conn[r].res # NoResponse => conn'[r].res = conn[r].res

FailureStoresNothing == [][FailureStoresNothingStep]_vars

\* The message of the typesetter that the response to r carries.
TypesetMessage(r) ==
  IF "details" \in DOMAIN conn[r].res.body
  THEN conn[r].res.body.details
  ELSE conn[r].res.body.error

\* The typesetter rejects the markup of the request r received.
TypesetRejects(r) == Keyed(r) /\ ~Typesets(Params(req[r]).latex)

\* C20: a request whose markup the typesetter rejects is answered, in the
\* step that receives it, with an error that carries the typesetter's
\* message and no tiles; the typesetter was called once for it, and the
\* cache holds nothing under its key, so that every such request, a later
\* identical one too, calls the typesetter.
TypesetErrorPropagated ==
  \A r \in Conns :
    TypesetRejects(r)
    => /\ conn[r].pc = "done"
       /\ ErrorResponse(r)
       /\ TypesetMessage(r) = ConvertError(Params(req[r]).latex).error
       /\ "tiles" \notin DOMAIN conn[r].res.body
       /\ calls[r] = 1
       /\ KeyOf(r) \notin DOMAIN cache

\* Two identical requests with rejected markup were both answered, the
\* typesetter called once for each.
TypesetErrorPropagatedWitness ==
  /\ \A r \in Conns : TypesetRejects(r) /\ conn[r].pc = "done" /\ calls[r] = 1
  /\ req[1] = req[2]

(***************************************************************************)
(* Degenerate images (SpecCrop).                                           *)
(***************************************************************************)
\* The request of r was typeset and its SVG has no area.
DegenerateRaster(r) ==
  /\ Keyed(r)
  /\ world[RasterKey(variant, Params(req[r]))] = Degenerate

\* C21: no payload has width 0 or height 0 and no crop rectangle is without
\* area; a request whose raster has width 0 or height 0 is answered with an
\* error without tiles, when the rasterizer settles, and nothing is stored
\* under its key.
DegenerateReported ==
  \A r \in Conns :
    /\ Responded(r) => conn[r].res.body.width >= 1 /\ conn[r].res.body.height >= 1
    /\ HasCrop(r) => conn[r].bbox.width >= 1 /\ conn[r].bbox.height >= 1
    /\ DegenerateRaster(r)
       => /\ conn[r].pc \in {"rasterize", "done"}
          /\ conn[r].pc = "done"
             => ErrorResponse(r) /\ "tiles" \notin DOMAIN conn[r].res.body
          /\ KeyOf(r) \notin DOMAIN cache

\* A request whose raster is degenerate has been answered.
DegenerateReportedWitness ==
  \E r \in Conns : DegenerateRaster(r) /\ conn[r].pc = "done"

(***************************************************************************)
(* The resize (SpecCrop).                                                  *)
(***************************************************************************)
\* The request asks for a resize that the server carries out: server.js
\* resizes when scaleTo is set, part_002 always; part_003 and part_010 read
\* no target.
ResizeEnabled(body) ==
  \/ variant = "part_002"
  \/ variant = "server" /\ Params(body).scaleTo

BothTargets(body) == {"targetWidth", "targetHeight"} \subseteq DOMAIN body

\* C22 as stated: a payload answered to a request that gives both targets,
\* with the resize enabled, has exactly the width and the height asked for.
ResizeExact ==
  \A r \in Conns :
    (Responded(r) /\ BothTargets(req[r]) /\ ResizeEnabled(req[r]))
    => /\ conn[r].res.body.width = req[r].targetWidth
       /\ conn[r].res.body.height = req[r].targetHeight

NoTargets(body) == DOMAIN body \cap {"targetWidth", "targetHeight"} = {}

\* C23 as stated: the handler of a request that gives neither target never
\* awaits a resize, and the payload it answers has the width and the height
\* of the crop rectangle.
PassthroughNotResized ==
  \A r \in Conns :
    (Keyed(r) /\ NoTargets(req[r]))
    => /\ conn[r].pc # "resize"
       /\ Responded(r)
          => /\ conn[r].res.body.width = conn[r].bbox.width
             /\ conn[r].res.body.height = conn[r].bbox.height

(***************************************************************************)
(* Renders in flight (LiveSpec).                                           *)
(***************************************************************************)
\* The handler of r has typeset and rasterized and has more to do.
Rasterised(r) ==
  conn[r].pc \in {"resize", "raw", "extract", "metadata", "fullRaw", "tileExtract"}

\* C24 as stated: a render whose typesetting and rasterization succeeded is
\* eventually stored in the cache under its key.
RenderPopulatesCache ==
  \A r \in ConnIds : Rasterised(r) ~> (conn[r].key \in DOMAIN cache)

\* C24 for the renders the tile loop finishes: unless some handler keeps the
\* event loop with a tile loop that does not end, a render with a
\* tileHeight of 1 or more is eventually stored under its key.
RenderPopulatesCacheUnlessLooping ==
  \A r \in ConnIds :
    (Rasterised(r) /\ conn[r].p.tileHeight >= 1)
      ~> (conn[r].key \in DOMAIN cache \/ ~Running)

\* C26 as stated: a handler that has reached its tile loop leaves it and
\* answers the request, whatever tileHeight the body gave.
TilingTerminates ==
  \A r \in ConnIds :
    (conn[r].pc \in {"fullRaw", "tileExtract"}) ~> (conn[r].pc = "done")

\* C26 for the tileHeight values of 1 and more: the handler leaves its tile
\* loop and answers, unless another handler keeps the event loop.
TilingTerminatesWhenPositive ==
  \A r \in ConnIds :
    (conn[r].pc \in {"fullRaw", "tileExtract"} /\ conn[r].p.tileHeight >= 1)
      ~> (conn[r].pc = "done" \/ ~Running)

(***************************************************************************)
(* The key material (SpecKey).                                             *)
(***************************************************************************)
\* C27 as stated: two tuples of parts that differ give different strings to
\* digest.
KeyMaterialInjective ==
  (keying.fn # "none" /\ keying.done /\ keying.a # keying.b)
  => keying.ka # keying.kb

\* Every part but latex is a number.
NumbersAfterLatex(parts) ==
  \A i \in 2..Len(parts) : "num" \in DOMAIN parts[i]

\* C27 for the tuples whose parts after latex are all numbers: a ":" in
\* latex alone makes no two of them meet.
KeyMaterialInjectiveOnNumbers ==
  (/\ keying.fn # "none" /\ keying.done /\ keying.a # keying.b
   /\ NumbersAfterLatex(keying.a) /\ NumbersAfterLatex(keying.b))
  => keying.ka # keying.kb

(***************************************************************************)
(* The order of the stages (Spec).                                         *)
(***************************************************************************)
\* The place of each stage in the order the pipeline is to run them in.
Rank(stage) ==
  CASE stage = "lookup" -> 1
    [] stage = "typeset" -> 2
    [] stage = "rasterize" -> 3
    [] stage = "bbox" -> 4
    [] stage = "crop" -> 5
    [] stage = "resize" -> 6
    [] stage = "tile" -> 7
    [] stage = "store" -> 8
    [] stage = "respond" -> 9

Ordered(names) ==
  \A i, j \in DOMAIN names : i < j => Rank(names[i]) < Rank(names[j])

EndsWith(names, tail) ==
  /\ Len(names) >= Len(tail)
  /\ SubSeq(names, Len(names) - Len(tail) + 1, Len(names)) = tail

\* C25 as stated: the stages of a request run in the order lookup, typeset,
\* rasterize, bounding box, crop, resize, tile, store, respond; a payload
\* that was rendered is stored after its tiling and before the response; a
\* cache hit runs the lookup and the response and nothing else.
StagesInOrder ==
  \A r \in Conns :
    /\ Ordered(stages[r])
    /\ (Responded(r) /\ calls[r] = 1) => EndsWith(stages[r], <<"tile", "store", "respond">>)
    /\ (Responded(r) /\ calls[r] = 0) => stages[r] = <<"lookup", "respond">>

(***************************************************************************)
(* Isolation of requests (Spec).                                           *)
(***************************************************************************)
\* No other connection has sent a request with the key of r's request.
OwnFingerprint(r) ==
  /\ Keyed(r)
  /\ \A q \in Conns \ {r} : Keyed(q) => KeyOf(q) # KeyOf(r)

\* The request of r reaches the rasterizer.
Renders(r) ==
  /\ Typesets(Params(req[r]).latex)
  /\ DensityOk(Params(req[r]).scale)

\* C28: whatever the handlers of other requests with other keys do in
\* between, a request is answered with the payload its render produces on
\* its own and the cache holds that payload under its key; a render that
\* fails on its own is answered with its error and leaves nothing under
\* its key.
RequestsIsolated ==
  \A r \in Conns :
    OwnFingerprint(r)
    => /\ Responded(r)
          => /\ conn[r].res.body = FreshRender(variant, Params(req[r]))
             /\ KeyOf(r) \in DOMAIN cache
             /\ cache[KeyOf(r)] = conn[r].res.body
       /\ (ErrorResponse(r) /\ Renders(r))
          => /\ IsError(FreshRender(variant, Params(req[r])))
             /\ conn[r].res.body.error = FreshRender(variant, Params(req[r])).error
       /\ ~Responded(r) => KeyOf(r) \notin DOMAIN cache

\* Two requests with different keys were rendered while both were in
\* flight, and both are answered.
RequestsIsolatedWitness ==
  /\ \A r \in Conns : OwnFingerprint(r) /\ Responded(r) /\ calls[r] = 1
  /\ \A r \in Conns : Len(stages[r]) > 2

(***************************************************************************)
(* The stacked layout (SpecStack).                                         *)
(***************************************************************************)
Composed == stack.pc \in {"composed", "clamped"}

\* The sum of height + gap over the fragments before the i-th.
RECURSIVE OffsetOf(_, _)
OffsetOf(frags, i) ==
  IF i = 1 THEN 0 ELSE OffsetOf(frags, i - 1) + frags[i - 1].height + Gap

\* The fragments are at the offsets the claim gives and none overlaps the
\* next; the canvas is between 1 and MAX_SIZE on each side; the raster
\* target is not larger than the canvas.
StackLayout ==
  Composed
  => /\ \A i \in DOMAIN stack.frags :
          /\ stack.canvas.rows[i].y = OffsetOf(stack.frags, i)
          /\ i > 1 => stack.canvas.rows[i - 1].y + stack.frags[i - 1].height
                         <= stack.canvas.rows[i].y
     /\ 1 <= stack.canvas.width /\ stack.canvas.width <= MAX_SIZE
     /\ 1 <= stack.canvas.height /\ stack.canvas.height <= MAX_SIZE
     /\ stack.pc = "clamped"
        => /\ stack.target.targetW <= stack.canvas.width
           /\ stack.target.targetH <= stack.canvas.height

\* Every fragment lies within the canvas.
FragmentsInsideCanvas ==
  Composed
  => \A i \in DOMAIN stack.frags :
       /\ stack.canvas.rows[i].y + stack.frags[i].height <= stack.canvas.height
       /\ stack.frags[i].width <= stack.canvas.width

\* C29 as stated: the offsets, the bounds of the canvas and of the target,
\* and every fragment within the canvas.
StackedInsideCanvas == StackLayout /\ FragmentsInsideCanvas

\* The stack as laid out needs no more than MAX_SIZE on either side.
StackFits ==
  /\ \A i \in DOMAIN stack.frags : stack.frags[i].width <= MAX_SIZE
  /\ OffsetOf(stack.frags, Len(stack.frags)) + stack.frags[Len(stack.frags)].height
       <= MAX_SIZE

\* C29 for the stacks that fit: when the fragments need no more than
\* MAX_SIZE on either side, every fragment lies within the canvas.
FragmentsInsideCanvasWhenFits ==
  (Composed /\ StackFits) => FragmentsInsideCanvas

====
